---- MODULE Spec2Model ----
(***************************************************************************)
(* Model of the go-discussion-app authentication core:                     *)
(*   pkg/jwtutil      token codec (GenerateToken / ValidateToken)          *)
(*   internal/auth    JWTAuthMiddleware, GetUserID, AuthService            *)
(*   internal/user    UserService and the users table                      *)
(*                                                                         *)
(* Strings are sequences of one-character strings.  Time is counted in     *)
(* ticks of 1/TicksPerSecond second, so that the truncation of a token's   *)
(* timestamps to whole seconds is visible.  HMAC is symbolic: the          *)
(* signature of a message under a key is a string built from both.         *)
(***************************************************************************)
EXTENDS Integers, Sequences, FiniteSets, TLC

VARIABLES
    now,              \* wall clock, in ticks
    jwtSecret,        \* environment variable JWT_SECRET
    jwtExpiresIn,     \* environment variable JWT_EXPIRES_IN
    verifyFirst,      \* jwt/v4 build: TRUE = signature checked before claims (>= 4.5.0)
    issued,           \* last token handed out by GenerateToken, with issue data
    req,              \* the protected request being served (gin.Context)
    users,            \* rows of table users
    nextId,           \* the SERIAL sequence of users.id
    ops,              \* the auth and user requests being served, one per process
    resp,             \* the response most recently written to an auth or user request
    regEmails,        \* emails for which a Register call passing validation has been made
    discussions,      \* rows of table discussions
    nextDisc,         \* the SERIAL sequence of discussions.id
    ctxs,             \* the gin.Context of each request being served concurrently
    subscriptions,    \* rows of table subscriptions
    lastCall,         \* per (discussion id, email): the repository call made last
    tags,             \* rows of table tags
    nextTag,          \* the SERIAL sequence of tags.id
    discussionTags,   \* rows of table discussion_tags
    comments,         \* rows of table comments
    nextComment,      \* the SERIAL sequence of comments.id
    tagOps            \* the AddTags calls being served, one per process

vars == <<now, jwtSecret, jwtExpiresIn, verifyFirst, issued, req, users, nextId, ops, resp, regEmails,
         discussions, nextDisc, ctxs, subscriptions, lastCall, tags, nextTag,
         discussionTags, comments, nextComment, tagOps>>

tokenVars == <<now, jwtSecret, jwtExpiresIn, verifyFirst, issued, req>>
sideVars == <<ctxs, lastCall, tags, nextTag, tagOps>>
contentVars == <<discussions, nextDisc, subscriptions, discussionTags, comments,
                 nextComment, sideVars>>
storeVars == <<users, nextId, ops, resp, regEmails, contentVars>>

----------------------------------------------------------------------------
(* Bounds *)

TicksPerSecond == 2
MaxSkew == 1
MaxId == 2
MaxDisc == 2
MaxTag == 3
MaxComment == 1

(* Program constants *)

SecondsPerMinute == 60
DefaultExpiryMinutes == 60
StatusOK == 200
StatusCreated == 201
StatusNoContent == 204
StatusBadRequest == 400
StatusUnauthorized == 401
StatusNotFound == 404
StatusConflict == 409
StatusInternalServerError == 500

----------------------------------------------------------------------------
(* Strings *)

UpperChars == <<"A","B","C","D","E","F","G","H","I","J","K","L","M",
                "N","O","P","Q","R","S","T","U","V","W","X","Y","Z">>
LowerChars == <<"a","b","c","d","e","f","g","h","i","j","k","l","m",
                "n","o","p","q","r","s","t","u","v","w","x","y","z">>
DigitChars == <<"0","1","2","3","4","5","6","7","8","9">>

\* the element of a one-element set
Only(S) == CHOOSE x \in S : TRUE

Max(S) == CHOOSE x \in S : \A y \in S : y <= x
Min(S) == CHOOSE x \in S : \A y \in S : x <= y

\* strings.ToLower, per character
ToLowerChar(c) ==
    IF \E i \in 1..26 : UpperChars[i] = c
    THEN LowerChars[CHOOSE i \in 1..26 : UpperChars[i] = c]
    ELSE c

ToLower(s) == [i \in 1..Len(s) |-> ToLowerChar(s[i])]

\* strings.Index for a one-character separator; 0 when absent
Index(s, c) ==
    IF \E i \in 1..Len(s) : s[i] = c
    THEN Min({i \in 1..Len(s) : s[i] = c})
    ELSE 0

\* strings.SplitN(s, c, 2)
SplitN2(s, c) ==
    LET i == Index(s, c)
    IN  IF i = 0 THEN <<s>>
        ELSE <<SubSeq(s, 1, i - 1), SubSeq(s, i + 1, Len(s))>>

\* strings.Split(s, c)
RECURSIVE Split(_, _)
Split(s, c) ==
    LET i == Index(s, c)
    IN  IF i = 0 THEN <<s>>
        ELSE <<SubSeq(s, 1, i - 1)>> \o Split(SubSeq(s, i + 1, Len(s)), c)

\* strings.Join(parts, c)
RECURSIVE Join(_, _)
Join(parts, c) ==
    IF Len(parts) = 0 THEN <<>>
    ELSE IF Len(parts) = 1 THEN parts[1]
    ELSE parts[1] \o <<c>> \o Join(Tail(parts), c)

IsDigit(c) == \E d \in 1..10 : DigitChars[d] = c
DigitVal(c) == (CHOOSE d \in 1..10 : DigitChars[d] = c) - 1

\* decimal rendering of an integer (strconv.Itoa, json number)
RECURSIVE DecNat(_)
DecNat(n) ==
    IF n < 10 THEN <<DigitChars[n + 1]>>
    ELSE DecNat(n \div 10) \o <<DigitChars[(n % 10) + 1]>>

Itoa(n) == IF n < 0 THEN <<"-">> \o DecNat(0 - n) ELSE DecNat(n)

RECURSIVE NatVal(_, _)
NatVal(s, acc) ==
    IF Len(s) = 0 THEN acc
    ELSE NatVal(Tail(s), 10 * acc + DigitVal(Head(s)))

\* strconv.Atoi: optional sign, then one or more digits
Atoi(s) ==
    LET signed == Len(s) > 0 /\ s[1] \in {"-", "+"}
        body == IF signed THEN Tail(s) ELSE s
    IN  IF Len(body) = 0 \/ \E i \in 1..Len(body) : ~IsDigit(body[i])
        THEN [ok |-> FALSE, val |-> 0]
        ELSE [ok |-> TRUE,
              val |-> IF signed /\ s[1] = "-" THEN 0 - NatVal(body, 0)
                      ELSE NatVal(body, 0)]

----------------------------------------------------------------------------
(* pkg/jwtutil: the token codec *)

ErrNone == "nil"
ErrTokenExpired == "token has expired"
ErrTokenMalformed == "token is malformed"
ErrTokenInvalid == "token is invalid"
ErrSecretNotSet == "environment variable JWT_SECRET is not set"

\* JWTClaims: user_id and the registered claims exp, nbf, iat.  A registered
\* claim is a set holding its value in seconds, empty when the claim is nil.
NoClaims == [uid |-> 0, exp |-> {}, nbf |-> {}, iat |-> {}]

getSigningKey(secret) ==
    IF secret = <<>> THEN [err |-> ErrSecretNotSet, key |-> <<>>]
    ELSE [err |-> ErrNone, key |-> secret]

\* minutes of validity, as a duration in ticks
getExpiryDuration(s) ==
    LET a == Atoi(s)
        minutes == IF s = <<>> THEN DefaultExpiryMinutes
                   ELSE IF ~a.ok \/ a.val <= 0 THEN DefaultExpiryMinutes
                   ELSE a.val
    IN  minutes * SecondsPerMinute * TicksPerSecond

\* jwt.NewNumericDate: the instant truncated to whole seconds
NewNumericDate(t) == t \div TicksPerSecond

\* the JOSE header segment; one character stands for the encoded header
AlgCodes == <<"H", "G", "N", "R", "Z">>
AlgNames == <<"HS256", "HS384", "none", "RS256", "XX">>
HMACAlgs == {"HS256", "HS384"}
RegisteredAlgs == {"HS256", "HS384", "none", "RS256"}

EncodeHeader(alg) == <<AlgCodes[CHOOSE i \in 1..Len(AlgNames) : AlgNames[i] = alg]>>

DecodeHeader(seg) ==
    IF Len(seg) = 1 /\ \E i \in 1..Len(AlgCodes) : AlgCodes[i] = seg[1]
    THEN [ok |-> TRUE, alg |-> AlgNames[CHOOSE i \in 1..Len(AlgCodes) : AlgCodes[i] = seg[1]]]
    ELSE [ok |-> FALSE, alg |-> ""]

\* the claims segment: json.Marshal of JWTClaims, in field order user_id,
\* exp, nbf, iat; a key letter followed by the decimal value, nil claims omitted
EncodeField(k, vs) == IF vs = {} THEN <<>> ELSE <<k>> \o Itoa(CHOOSE v \in vs : TRUE)

EncodeClaims(c) ==
    <<"u">> \o Itoa(c.uid) \o EncodeField("e", c.exp)
            \o EncodeField("n", c.nbf) \o EncodeField("i", c.iat)

ClaimKeys == {"u", "e", "n", "i"}

\* last index of the number that starts at position i of s (i - 1 when none)
NumEnd(s, i) ==
    Max({j \in (i - 1)..Len(s) :
            \A k \in i..j : IsDigit(s[k]) \/ (k = i /\ s[k] = "-")})

\* SetClaim with the user_id field not bound to its json key
SetClaim_UidUnbound(c, k, v) ==
    CASE k = "u" -> c
      [] k = "e" -> [c EXCEPT !.exp = {v}]
      [] k = "n" -> [c EXCEPT !.nbf = {v}]
      [] k = "i" -> [c EXCEPT !.iat = {v}]

SetClaim(c, k, v) ==
    CASE k = "u" -> [c EXCEPT !.uid = v]
      [] k = "e" -> [c EXCEPT !.exp = {v}]
      [] k = "n" -> [c EXCEPT !.nbf = {v}]
      [] k = "i" -> [c EXCEPT !.iat = {v}]

\* json decoding of the claims segment into JWTClaims, from position i
RECURSIVE DecodeClaimsFrom(_, _, _)
DecodeClaimsFrom(s, i, acc) ==
    IF i > Len(s) THEN [ok |-> TRUE, claims |-> acc]
    ELSE IF s[i] \notin ClaimKeys THEN [ok |-> FALSE, claims |-> NoClaims]
    ELSE LET j == NumEnd(s, i + 1)
             n == Atoi(SubSeq(s, i + 1, j))
         IN  IF ~n.ok THEN [ok |-> FALSE, claims |-> NoClaims]
             ELSE DecodeClaimsFrom(s, j + 1, SetClaim(acc, s[i], n.val))

DecodeClaims(seg) ==
    IF Len(seg) = 0 THEN [ok |-> FALSE, claims |-> NoClaims]
    ELSE DecodeClaimsFrom(seg, 1, NoClaims)

\* HMAC of the signing input under a key, symbolically
HMACSign(alg, key, signingInput) ==
    <<"s", IF alg = "HS256" THEN "2" ELSE "3">> \o key \o <<"_">>
        \o [i \in 1..Len(signingInput) |->
                IF signingInput[i] = "." THEN "_" ELSE signingInput[i]]

\* SigningMethodHMAC.Verify accepting a signature made under any key
HMACVerify_AnyKey(alg, signingInput, sig, key) ==
    \E k \in {<<"k">>, <<"j">>} : sig = HMACSign(alg, k, signingInput)

\* SigningMethodHMAC.Verify
HMACVerify(alg, signingInput, sig, key) == sig = HMACSign(alg, key, signingInput)

\* Token.SignedString
SignedString(alg, claims, key) ==
    LET signingInput == EncodeHeader(alg) \o <<".">> \o EncodeClaims(claims)
    IN  signingInput \o <<".">> \o HMACSign(alg, key, signingInput)

\* GenerateToken at instant t under the given environment
GenerateToken(userID, t, secret, expiresIn) ==
    LET k == getSigningKey(secret)
        expiry == t + getExpiryDuration(expiresIn)
        claims == [uid |-> userID,
                   exp |-> {NewNumericDate(expiry)},
                   nbf |-> {},
                   iat |-> {NewNumericDate(t)}]
    IN  IF k.err # ErrNone THEN [err |-> k.err, tok |-> <<>>]
        ELSE [err |-> ErrNone, tok |-> SignedString("HS256", claims, k.key)]

\* ParseUnverified reading the first three segments of a longer string
ParseUnverified_ExtraSegments(tokenStr) ==
    LET parts == Split(tokenStr, ".")
        h == DecodeHeader(parts[1])
        c == DecodeClaims(parts[2])
    IN  IF Len(parts) < 3 THEN [errs |-> {"Malformed"}, alg |-> "", claims |-> NoClaims]
        ELSE IF ~h.ok \/ ~c.ok THEN [errs |-> {"Malformed"}, alg |-> "", claims |-> NoClaims]
        ELSE IF h.alg \notin RegisteredAlgs
             THEN [errs |-> {"Unverifiable"}, alg |-> h.alg, claims |-> c.claims]
        ELSE [errs |-> {}, alg |-> h.alg, claims |-> c.claims]

\* Parser.ParseUnverified: segments, header, claims, signing method
ParseUnverified(tokenStr) ==
    LET parts == Split(tokenStr, ".")
        h == DecodeHeader(parts[1])
        c == DecodeClaims(parts[2])
    IN  IF Len(parts) # 3 THEN [errs |-> {"Malformed"}, alg |-> "", claims |-> NoClaims]
        ELSE IF ~h.ok \/ ~c.ok THEN [errs |-> {"Malformed"}, alg |-> "", claims |-> NoClaims]
        ELSE IF h.alg \notin RegisteredAlgs
             THEN [errs |-> {"Unverifiable"}, alg |-> h.alg, claims |-> c.claims]
        ELSE [errs |-> {}, alg |-> h.alg, claims |-> c.claims]

\* ClaimsValid accepting a token at the very instant of its expiry
ClaimsValid_ExpiryInclusive(c, t) ==
    {"Expired" : e \in {x \in c.exp : ~(t <= x * TicksPerSecond)}}
    \cup {"IssuedAt" : e \in {x \in c.iat : ~(t >= x * TicksPerSecond)}}
    \cup {"NotValidYet" : e \in {x \in c.nbf : ~(t >= x * TicksPerSecond)}}

\* RegisteredClaims.Valid at instant t: every failing check sets its flag
ClaimsValid(c, t) ==
    {"Expired" : e \in {x \in c.exp : ~(t < x * TicksPerSecond)}}
    \cup {"IssuedAt" : e \in {x \in c.iat : ~(t >= x * TicksPerSecond)}}
    \cup {"NotValidYet" : e \in {x \in c.nbf : ~(t >= x * TicksPerSecond)}}

\* Parser.ParseWithClaims with the key function of ValidateToken; the
\* result is the flag set of the ValidationError, empty when the token is valid
ParseWithClaims(tokenStr, key, t, sigFirst) ==
    Only({
        IF u.errs # {} THEN [errs |-> u.errs, claims |-> u.claims]
        ELSE IF u.alg \notin HMACAlgs THEN [errs |-> {"Unverifiable"}, claims |-> u.claims]
        ELSE LET parts == Split(tokenStr, ".")
                 sigErr == IF HMACVerify(u.alg, Join(SubSeq(parts, 1, 2), "."), parts[3], key)
                           THEN {} ELSE {"SignatureInvalid"}
             IN  IF sigFirst /\ sigErr # {} THEN [errs |-> sigErr, claims |-> u.claims]
                 ELSE [errs |-> ClaimsValid(u.claims, t) \cup sigErr, claims |-> u.claims]
        : u \in {ParseUnverified(tokenStr)} })

ValidateToken(tokenStr, t, secret, sigFirst) ==
    LET k == getSigningKey(secret)
    IN  IF k.err # ErrNone THEN [err |-> k.err, claims |-> NoClaims]
        ELSE Only({
            IF p.errs # {}
            THEN IF "Expired" \in p.errs
                 THEN [err |-> ErrTokenExpired, claims |-> NoClaims]
                 ELSE [err |-> ErrTokenMalformed, claims |-> NoClaims]
            ELSE [err |-> ErrNone, claims |-> p.claims]
            : p \in {ParseWithClaims(tokenStr, k.key, t, sigFirst)} })

\* ExtractUserID accepting a token only while an account with its user id
\* is stored
ExtractUserID_AccountMustExist(tokenStr, t, secret, sigFirst) ==
    Only({
        IF v.err # ErrNone THEN [uid |-> 0, err |-> v.err]
        ELSE IF \A u \in users : u.id # v.claims.uid
        THEN [uid |-> 0, err |-> ErrTokenInvalid]
        ELSE [uid |-> v.claims.uid, err |-> ErrNone]
        : v \in {ValidateToken(tokenStr, t, secret, sigFirst)} })

ExtractUserID(tokenStr, t, secret, sigFirst) ==
    Only({
        IF v.err # ErrNone THEN [uid |-> 0, err |-> v.err]
        ELSE [uid |-> v.claims.uid, err |-> ErrNone]
        : v \in {ValidateToken(tokenStr, t, secret, sigFirst)} })

----------------------------------------------------------------------------
(* internal/auth/middleware.go: the request pipeline of a gin route *)

Bearer == <<"B","e","a","r","e","r">>
BEARER == <<"B","E","A","R","E","R">>
bearer == <<"b","e","a","r","e","r">>
TokenScheme == <<"t","o","k","e","n">>
Space == <<" ">>

\* gin.Context.Keys: a map from key to value, empty on a fresh context
NoKeys == [k \in {} |-> 0]

\* gin.Context.Set
SetKey(keys, k, v) == [x \in DOMAIN keys \cup {k} |-> IF x = k THEN v ELSE keys[x]]

\* GetUserID reading the key "userId" instead of "userID"
GetUserID_WrongKey(keys) ==
    IF "userId" \notin DOMAIN keys THEN [uid |-> 0, ok |-> FALSE]
    ELSE [uid |-> keys["userId"], ok |-> TRUE]

\* GetUserID(c)
GetUserID(keys) ==
    IF "userID" \notin DOMAIN keys THEN [uid |-> 0, ok |-> FALSE]
    ELSE [uid |-> keys["userID"], ok |-> TRUE]

\* VerifyErrorBody without the expired case
VerifyErrorBody_Generic(err) == "invalid token"

\* the body the middleware answers a failed ExtractUserID with
VerifyErrorBody(err) ==
    IF err = ErrTokenExpired THEN "token expired" ELSE "invalid token"

\* JWTAuthMiddleware answering a failed ExtractUserID without c.Abort()
JWTAuthMiddleware_NoAbort(auth, keys, t, secret, sigFirst) ==
    LET parts == SplitN2(auth, " ")
    IN  IF Len(parts) # 2 \/ ToLower(parts[1]) # bearer
        THEN [status |-> StatusUnauthorized, body |-> "invalid auth header",
              aborted |-> TRUE, keys |-> keys, calls |-> <<>>]
        ELSE Only({
            IF r.err # ErrNone
            THEN [status |-> StatusUnauthorized, body |-> VerifyErrorBody(r.err),
                  aborted |-> FALSE, keys |-> keys,
                  calls |-> <<[arg |-> parts[2], at |-> t, err |-> r.err, uid |-> r.uid]>>]
            ELSE [status |-> 0, body |-> "",
                  aborted |-> FALSE, keys |-> SetKey(keys, "userID", r.uid),
                  calls |-> <<[arg |-> parts[2], at |-> t, err |-> r.err, uid |-> r.uid]>>]
            : r \in {ExtractUserID(parts[2], t, secret, sigFirst)} })

\* JWTAuthMiddleware on a context with the given Authorization header at
\* instant t: the response written, whether the chain was aborted, the keys
\* set, and the calls made to ExtractUserID
JWTAuthMiddleware(auth, keys, t, secret, sigFirst) ==
    LET parts == SplitN2(auth, " ")
    IN  IF Len(parts) # 2 \/ ToLower(parts[1]) # bearer
        THEN [status |-> StatusUnauthorized, body |-> "invalid auth header",
              aborted |-> TRUE, keys |-> keys, calls |-> <<>>]
        ELSE Only({
            IF r.err # ErrNone
            THEN [status |-> StatusUnauthorized, body |-> VerifyErrorBody(r.err),
                  aborted |-> TRUE, keys |-> keys,
                  calls |-> <<[arg |-> parts[2], at |-> t, err |-> r.err, uid |-> r.uid]>>]
            ELSE [status |-> 0, body |-> "",
                  aborted |-> FALSE, keys |-> SetKey(keys, "userID", r.uid),
                  calls |-> <<[arg |-> parts[2], at |-> t, err |-> r.err, uid |-> r.uid]>>]
            : r \in {ExtractUserID(parts[2], t, secret, sigFirst)} })

\* the handler mounted behind the middleware on the route /protected
ProtectedHandler(keys) ==
    LET g == GetUserID(keys)
    IN  IF ~g.ok THEN [status |-> StatusInternalServerError,
                       body |-> "userID not found in context", userID |-> 0]
        ELSE [status |-> StatusOK, body |-> "welcome", userID |-> g.uid]

----------------------------------------------------------------------------
(* Inputs of the token specification *)

Uids == {7}
Secrets == {<<>>, <<"k">>}
OtherKey == <<"j">>
ExpiresInValues == {<<>>, <<"1">>, <<"0">>, <<"-", "1">>}

TicksPerMinute == SecondsPerMinute * TicksPerSecond

\* the instants at which the clock is observed: around the start, around
\* the expiry of a token of one minute, and at the default validity
Instants ==
    (0..MaxSkew)
    \cup ((TicksPerMinute - 1)..(TicksPerMinute + MaxSkew))
    \cup {DefaultExpiryMinutes * TicksPerMinute}

FarFuture == 2 * DefaultExpiryMinutes * SecondsPerMinute

CraftedClaims ==
    { [uid |-> 12, exp |-> {1}, nbf |-> {}, iat |-> {0}],
      [uid |-> 12, exp |-> {1}, nbf |-> {FarFuture}, iat |-> {0}],
      [uid |-> 12, exp |-> {}, nbf |-> {}, iat |-> {}] }

JunkTokens ==
    { <<>>, <<"a","b","c">>, <<"a",".","b">>, <<"a",".","b",".","c">>,
      <<"H",".","u","1",".","s",".","x">> }

\* token strings a client may present: well-formed tokens with chosen claims
\* signed under the configured or another key, tokens announcing a
\* non-HMAC or unknown algorithm, and strings that are no tokens
CraftedTokens ==
    {SignedString("HS256", c, k) : c \in CraftedClaims, k \in {<<"k">>, OtherKey}}
    \cup {SignedString("HS384", [uid |-> 12, exp |-> {}, nbf |-> {}, iat |-> {}], <<"k">>)}
    \cup {EncodeHeader(alg) \o <<".">> \o EncodeClaims(c) \o <<".">> :
                alg \in {"none", "RS256", "XX"},
                c \in {[uid |-> 12, exp |-> {}, nbf |-> {}, iat |-> {}]}}
    \cup JunkTokens

NoToken == [err |-> "none", tok |-> <<>>, uid |-> 0, at |-> 0, ttl |-> 0, key |-> <<>>]

IssuedTokens == IF issued.err = ErrNone THEN {issued.tok} ELSE {}

\* Authorization header values: every token behind a well-shaped scheme,
\* and every shape of scheme and separator in front of a few tokens
HeaderInputs ==
    {Bearer \o Space \o tok : tok \in CraftedTokens \cup IssuedTokens}
    \cup {scheme \o sep \o tok :
            scheme \in {<<>>, Bearer, BEARER, TokenScheme},
            sep \in {<<>>, Space, Space \o Space},
            tok \in {<<>>} \cup IssuedTokens}
    \cup {Space \o Bearer \o Space \o tok : tok \in IssuedTokens}

\* a bound JSON body; a field is a set, empty when the body lacks it
NoDTO == [title |-> {}, content |-> {}, scheduledAt |-> {}, email |-> {},
          subscribedAt |-> {},
          username |-> {}, password |-> {}, fullName |-> {}, bio |-> {}]

\* a string field after binding: the zero value when the body lacks it
StrOf(f) == IF f = {} THEN "" ELSE Only(f)

IdleReq == [stage |-> "idle", route |-> "", header |-> <<>>, keys |-> NoKeys,
            status |-> 0, body |-> "", userID |-> 0, calls |-> <<>>,
            mwRan |-> FALSE, handlerRan |-> FALSE,
            param |-> 0, dto |-> NoDTO, caller |-> 0, svc |-> <<>>, id |-> 0,
            rows |-> <<>>, read |-> {}]

----------------------------------------------------------------------------
(* Actions of the token specification *)

\* time passes
Advance ==
    /\ \E t \in Instants : t > now /\ now' = t
    /\ UNCHANGED <<jwtSecret, jwtExpiresIn, verifyFirst, issued, req>>
    /\ UNCHANGED storeVars

\* a call of GenerateToken, as made by Login or by a test
Issue ==
    /\ \E uid \in Uids :
         \E g \in {GenerateToken(uid, now, jwtSecret, jwtExpiresIn)} :
             issued' = [err |-> g.err, tok |-> g.tok, uid |-> uid, at |-> now,
                        ttl |-> getExpiryDuration(jwtExpiresIn), key |-> jwtSecret]
    /\ UNCHANGED <<now, jwtSecret, jwtExpiresIn, verifyFirst, req>>
    /\ UNCHANGED storeVars

\* a request arrives on a route of the protected group: JWTAuthMiddleware
\* runs in front of the handler
Receive ==
    /\ req.stage \in {"idle", "done"}
    /\ \E h \in HeaderInputs :
          req' = [IdleReq EXCEPT !.stage = "mw", !.route = "protected", !.header = h]
    /\ UNCHANGED <<now, jwtSecret, jwtExpiresIn, verifyFirst, issued>>
    /\ UNCHANGED storeVars

\* JWTAuthMiddleware runs on the request
Middleware ==
    /\ req.stage = "mw"
    /\ \E m \in {JWTAuthMiddleware(req.header, req.keys, now, jwtSecret, verifyFirst)} :
           req' = [req EXCEPT !.stage = IF m.aborted THEN "done" ELSE "handler",
                              !.status = m.status, !.body = m.body,
                              !.keys = m.keys, !.calls = m.calls, !.mwRan = TRUE]
    /\ UNCHANGED <<now, jwtSecret, jwtExpiresIn, verifyFirst, issued>>
    /\ UNCHANGED storeVars

\* the route's handler runs
Handler ==
    /\ req.stage = "handler"
    /\ \E h \in {ProtectedHandler(req.keys)} :
           req' = [req EXCEPT !.stage = "done", !.status = h.status, !.body = h.body,
                              !.userID = h.userID, !.handlerRan = TRUE]
    /\ UNCHANGED <<now, jwtSecret, jwtExpiresIn, verifyFirst, issued>>
    /\ UNCHANGED storeVars

----------------------------------------------------------------------------
(* internal/auth (AuthService, AuthController), internal/user (UserService,
   UserController, userRepo) and the table users *)

ErrUserExists == "user with that email already exists"
ErrInvalidCredentials == "invalid email or password"
ErrUserNotFound == "user not found"
ErrUniqueViolation == "duplicate key value violates unique constraint"

Procs == {1, 2}
Usernames == {"alice", "bob"}
Emails == {"a@x.com", "b@x.com"}
Passwords == {"secret123", "wrong"}
Salts == {"s1"}

NoHash == [salt |-> "", pw |-> ""]
NoRow == [id |-> 0, username |-> "", email |-> "", passwordHash |-> NoHash,
          fullName |-> "", bio |-> "", createdAt |-> 0, updatedAt |-> 0]

\* bcrypt.GenerateFromPassword with the salt it drew
GenerateFromPassword(pw, salt) == [salt |-> salt, pw |-> pw]

\* bcrypt.CompareHashAndPassword: TRUE when the password matches the hash
CompareHashAndPassword(hash, pw) == hash # NoHash /\ hash.pw = pw

\* the required fields of RegisterDTO and of LoginDTO
RegisterFields == {"username", "email", "password"}
LoginFields == {"email", "password"}

\* RegisterDTO.Validate testing the email before the username
RegisterValidate_EmailFirst(dto) ==
    IF dto.email = "" THEN "email is required"
    ELSE IF dto.username = "" THEN "username is required"
    ELSE IF dto.password = "" THEN "password is required"
    ELSE ErrNone

\* RegisterDTO.Validate
RegisterValidate(dto) ==
    IF dto.username = "" THEN "username is required"
    ELSE IF dto.email = "" THEN "email is required"
    ELSE IF dto.password = "" THEN "password is required"
    ELSE ErrNone

\* LoginDTO.Validate
LoginValidate(dto) ==
    IF dto.email = "" THEN "email is required"
    ELSE IF dto.password = "" THEN "password is required"
    ELSE ErrNone

\* UpdateUserDTO.Validate; a field of the DTO is a set, empty when nil
UpdateValidate(dto) ==
    IF dto.username = {} /\ dto.email = {} /\ dto.password = {}
       /\ dto.fullName = {} /\ dto.bio = {}
    THEN "at least one field must be provided"
    ELSE ErrNone

\* userRepo.GetByID returning a zero-valued user where it has no row
GetByID_ZeroUser(rows, id) ==
    IF \A r \in rows : r.id # id THEN {[NoRow EXCEPT !.id = id]}
    ELSE {r \in rows : r.id = id}

\* userRepo.GetByEmail, userRepo.GetByID: the rows found (none or one)
GetByEmail(rows, email) == {u \in rows : u.email = email}
GetByID(rows, id) == {u \in rows : u.id = id}

\* the UNIQUE constraints of users on username and on email, for row u
UniqueViolation_UsernameOnly(rows, u) ==
    \E r \in rows : r.id # u.id /\ r.username = u.username

UniqueViolation(rows, u) ==
    \E r \in rows : r.id # u.id /\ (r.username = u.username \/ r.email = u.email)

\* userRepo.Create: INSERT ... RETURNING id; the sequence advances even
\* when the insert is rejected
Create(rows, seq, u) ==
    LET row == [u EXCEPT !.id = seq]
    IN  IF UniqueViolation(rows, row)
        THEN [err |-> ErrUniqueViolation, id |-> 0, rows |-> rows, seq |-> seq + 1]
        ELSE [err |-> ErrNone, id |-> seq, rows |-> rows \cup {row}, seq |-> seq + 1]

\* userRepo.Update: UPDATE ... WHERE id; no row matching is no error
RepoUpdate(rows, u, t) ==
    IF GetByID(rows, u.id) = {} THEN [err |-> ErrNone, rows |-> rows]
    ELSE IF UniqueViolation(rows, u) THEN [err |-> ErrUniqueViolation, rows |-> rows]
    ELSE [err |-> ErrNone,
          rows |-> {IF r.id = u.id
                    THEN [u EXCEPT !.createdAt = r.createdAt, !.updatedAt = t]
                    ELSE r : r \in rows}]

\* userRepo.Delete
RepoDelete(rows, id) == {r \in rows : r.id # id}

\* discussions.user_id REFERENCES users(id) ON DELETE CASCADE
CascadeUser(rows, id) == {d \in rows : d.userID # id}

\* subscriptions once rows of users and discussions are gone:
\* discussion_id ... ON DELETE CASCADE, user_id ... ON DELETE SET NULL
CascadeSubscriptions(rows, accounts, posts) ==
    {[s EXCEPT !.userID = {u \in @ : \E a \in accounts : a.id = u}] :
        s \in {x \in rows : \E d \in posts : d.id = x.discussionID}}

\* discussion_tags once rows of discussions are gone:
\* discussion_id ... ON DELETE CASCADE
CascadeDiscussionTags(rows, posts) ==
    {l \in rows : \E d \in posts : d.id = l.discussionID}

\* comments once rows of users and discussions are gone:
\* discussion_id ... ON DELETE CASCADE, user_id ... ON DELETE CASCADE
CascadeComments(rows, accounts, posts) ==
    {c \in rows : /\ \E d \in posts : d.id = c.discussionID
                  /\ \E a \in accounts : a.id = c.userID}

\* RegisterHandler's answer to the result of AuthService.Register
RegisterResponse(err, id) ==
    IF err = ErrNone THEN [status |-> StatusCreated, body |-> "id", id |-> id]
    ELSE IF err = ErrUserExists
    THEN [status |-> StatusConflict, body |-> "email already in use", id |-> 0]
    ELSE [status |-> StatusInternalServerError, body |-> "server error", id |-> 0]

\* AuthService.Login with an absent account answered by its own error
LoginService_UnknownEmailDistinct(rows, dto, t, secret, expiresIn) ==
    LET found == GetByEmail(rows, dto.email)
    IN  IF LoginValidate(dto) # ErrNone THEN [err |-> LoginValidate(dto), token |-> <<>>]
        ELSE IF found = {} THEN [err |-> ErrUserNotFound, token |-> <<>>]
        ELSE Only({
            IF ~CompareHashAndPassword(u.passwordHash, dto.password)
            THEN [err |-> ErrInvalidCredentials, token |-> <<>>]
            ELSE Only({[err |-> g.err, token |-> g.tok]
                        : g \in {GenerateToken(u.id, t, secret, expiresIn)}})
            : u \in found })

\* AuthService.Login issuing the token for the zero id instead of the
\* account's
LoginService_TokenForZero(rows, dto, t, secret, expiresIn) ==
    LET found == GetByEmail(rows, dto.email)
    IN  IF LoginValidate(dto) # ErrNone THEN [err |-> LoginValidate(dto), token |-> <<>>]
        ELSE IF found = {} THEN [err |-> ErrInvalidCredentials, token |-> <<>>]
        ELSE Only({
            IF ~CompareHashAndPassword(u.passwordHash, dto.password)
            THEN [err |-> ErrInvalidCredentials, token |-> <<>>]
            ELSE Only({[err |-> g.err, token |-> g.tok]
                        : g \in {GenerateToken(0, t, secret, expiresIn)}})
            : u \in found })

\* AuthService.Login
LoginService(rows, dto, t, secret, expiresIn) ==
    LET found == GetByEmail(rows, dto.email)
    IN  IF LoginValidate(dto) # ErrNone THEN [err |-> LoginValidate(dto), token |-> <<>>]
        ELSE IF found = {} THEN [err |-> ErrInvalidCredentials, token |-> <<>>]
        ELSE Only({
            IF ~CompareHashAndPassword(u.passwordHash, dto.password)
            THEN [err |-> ErrInvalidCredentials, token |-> <<>>]
            ELSE Only({[err |-> g.err, token |-> g.tok]
                        : g \in {GenerateToken(u.id, t, secret, expiresIn)}})
            : u \in found })

\* LoginHandler's answer to the result of AuthService.Login
LoginResponse(r) ==
    IF r.err = ErrNone THEN [status |-> StatusOK, body |-> "token", token |-> r.token]
    ELSE IF r.err = ErrInvalidCredentials
    THEN [status |-> StatusUnauthorized, body |-> "wrong email or password", token |-> <<>>]
    ELSE [status |-> StatusInternalServerError, body |-> "server error", token |-> <<>>]

\* UserService.Update, lines 48-68: the DTO's fields applied to the row read
ApplyUpdate(existing, dto, salt, t) ==
    [existing EXCEPT
        !.username = IF dto.username = {} THEN @ ELSE Only(dto.username),
        !.email = IF dto.email = {} THEN @ ELSE Only(dto.email),
        !.passwordHash = IF dto.password = {} THEN @
                         ELSE GenerateFromPassword(Only(dto.password), salt),
        !.fullName = IF dto.fullName = {} THEN @ ELSE Only(dto.fullName),
        !.bio = IF dto.bio = {} THEN @ ELSE Only(dto.bio),
        !.updatedAt = t]

\* request inputs
RegisterDTOs ==
    [username : Usernames \cup {""}, email : Emails \cup {""},
     password : {"secret123", ""}, fullName : {""}, bio : {""}]

LoginDTOs == [email : Emails \cup {""}, password : Passwords \cup {""}]

UpdateDTOs ==
    [username : {{}}, email : {{}} \cup {{e} : e \in Emails},
     password : {{}}, fullName : {{}}, bio : {{}}]
    \cup {[username |-> {"bob"}, email |-> {}, password |-> {},
            fullName |-> {}, bio |-> {}],
           [username |-> {}, email |-> {}, password |-> {"wrong"},
            fullName |-> {}, bio |-> {}]}

NoResp == [kind |-> "none", status |-> 0, body |-> "", id |-> 0, token |-> <<>>,
           err |-> ErrNone, email |-> "", first |-> FALSE, valid |-> FALSE,
           stored |-> FALSE, pwOk |-> FALSE, missing |-> {}]
\* an UpdateUserDTO with every field absent
NoUpdate == [username |-> {}, email |-> {}, password |-> {}, fullName |-> {}, bio |-> {}]

IdleOp == [kind |-> "idle", pc |-> "idle", row |-> NoRow, first |-> FALSE,
           dto |-> NoUpdate]

Free(p) == ops[p].pc = "idle"

\* the response written for a request of the given kind
Respond(kind, status, body, id, err) ==
    [NoResp EXCEPT !.kind = kind, !.status = status, !.body = body, !.id = id,
                   !.err = err]

\* POST /auth/register up to the account lookup: validation, GetByEmail,
\* and the password hash of the row to insert
RegisterLookup(p) ==
    /\ Free(p)
    /\ \E dto \in RegisterDTOs, salt \in Salts :
         LET verr == RegisterValidate(dto)
             first == dto.email \notin regEmails
             row == [NoRow EXCEPT !.username = dto.username, !.email = dto.email,
                                  !.passwordHash = GenerateFromPassword(dto.password, salt),
                                  !.fullName = dto.fullName, !.bio = dto.bio,
                                  !.createdAt = now, !.updatedAt = now]
             r409 == RegisterResponse(ErrUserExists, 0)
             r500 == RegisterResponse(verr, 0)
         IN  /\ regEmails' = IF verr = ErrNone THEN regEmails \cup {dto.email} ELSE regEmails
             /\ IF verr # ErrNone
                THEN /\ resp' = [Respond("register", r500.status, r500.body, 0, verr)
                                   EXCEPT !.email = dto.email, !.first = first,
                                          !.missing = {f \in RegisterFields : dto[f] = ""}]
                     /\ UNCHANGED ops
                ELSE IF GetByEmail(users, dto.email) # {}
                THEN /\ resp' = [Respond("register", r409.status, r409.body, 0, ErrUserExists)
                                   EXCEPT !.email = dto.email, !.first = first,
                                          !.valid = TRUE, !.stored = TRUE]
                     /\ UNCHANGED ops
                ELSE /\ ops' = [ops EXCEPT ![p] = [kind |-> "register", pc |-> "insert",
                                                   row |-> row, first |-> first,
                                                   dto |-> NoUpdate]]
                     /\ UNCHANGED resp
    /\ UNCHANGED <<users, nextId>>
    /\ UNCHANGED tokenVars
    /\ UNCHANGED contentVars

\* POST /auth/register from userRepo.Create on
RegisterInsert(p) ==
    /\ ops[p].kind = "register"
    /\ ops[p].pc = "insert"
    /\ nextId <= MaxId
    /\ \E c \in {Create(users, nextId, ops[p].row)} :
         \E r \in {RegisterResponse(c.err, c.id)} :
            /\ users' = c.rows
            /\ nextId' = c.seq
            /\ resp' = [Respond("register", r.status, r.body, r.id, c.err)
                          EXCEPT !.email = ops[p].row.email, !.first = ops[p].first,
                                 !.valid = TRUE]
    /\ ops' = [ops EXCEPT ![p] = IdleOp]
    /\ UNCHANGED regEmails
    /\ UNCHANGED tokenVars
    /\ UNCHANGED contentVars

\* POST /auth/login
Login(p) ==
    /\ Free(p)
    /\ \E dto \in LoginDTOs :
         \E l \in {LoginService(users, dto, now, jwtSecret, jwtExpiresIn)} :
            \E r \in {LoginResponse(l)} :
               /\ resp' = [Respond("login", r.status, r.body, 0, l.err)
                          EXCEPT !.token = r.token,
                                 !.email = dto.email,
                                 !.missing = {f \in LoginFields : dto[f] = ""},
                                 !.valid = LoginValidate(dto) = ErrNone,
                                 !.stored = GetByEmail(users, dto.email) # {},
                                 !.pwOk = \E u \in GetByEmail(users, dto.email) :
                                     CompareHashAndPassword(u.passwordHash, dto.password)]
               /\ issued' = IF l.err # ErrNone THEN issued
                             ELSE [err |-> ErrNone, tok |-> l.token,
                                   uid |-> Only(GetByEmail(users, dto.email)).id,
                                   at |-> now, ttl |-> getExpiryDuration(jwtExpiresIn),
                                   key |-> jwtSecret]
    /\ UNCHANGED <<users, nextId, ops, regEmails>>
    /\ UNCHANGED <<now, jwtSecret, jwtExpiresIn, verifyFirst, req>>
    /\ UNCHANGED contentVars

\* PUT /users/:id up to the row read: validation, GetByID, the new field values
UpdateRead(p) ==
    /\ Free(p)
    /\ \E id \in 1..MaxId, dto \in UpdateDTOs, salt \in Salts :
         IF UpdateValidate(dto) # ErrNone
         THEN /\ resp' = Respond("update", StatusBadRequest, UpdateValidate(dto), id,
                                 UpdateValidate(dto))
              /\ UNCHANGED ops
         ELSE IF GetByID(users, id) = {}
         THEN /\ resp' = Respond("update", StatusNotFound, "user not found", id,
                                 ErrUserNotFound)
              /\ UNCHANGED ops
         ELSE /\ ops' = [ops EXCEPT ![p] =
                    [kind |-> "update", pc |-> "write",
                     row |-> ApplyUpdate(Only(GetByID(users, id)), dto, salt, now),
                     first |-> FALSE, dto |-> dto]]
              /\ UNCHANGED resp
    /\ UNCHANGED <<users, nextId, regEmails>>
    /\ UNCHANGED tokenVars
    /\ UNCHANGED contentVars

\* PUT /users/:id from userRepo.Update on
UpdateWrite(p) ==
    /\ ops[p].kind = "update"
    /\ ops[p].pc = "write"
    /\ \E u \in {RepoUpdate(users, ops[p].row, now)} :
         /\ users' = u.rows
         /\ resp' = IF u.err # ErrNone
                    THEN Respond("update", StatusInternalServerError, "server error",
                                 ops[p].row.id, u.err)
                    ELSE Respond("update", StatusOK, "user", ops[p].row.id, ErrNone)
    /\ ops' = [ops EXCEPT ![p] = IdleOp]
    /\ UNCHANGED <<nextId, regEmails>>
    /\ UNCHANGED tokenVars
    /\ UNCHANGED contentVars

\* DELETE /users/:id up to the row read
DeleteRead(p) ==
    /\ Free(p)
    /\ \E id \in 1..MaxId :
         IF GetByID(users, id) = {}
         THEN /\ resp' = Respond("delete", StatusNotFound, "user not found", id,
                                 ErrUserNotFound)
              /\ UNCHANGED ops
         ELSE /\ ops' = [ops EXCEPT ![p] =
                    [kind |-> "delete", pc |-> "delete",
                     row |-> [NoRow EXCEPT !.id = id], first |-> FALSE,
                     dto |-> NoUpdate]]
              /\ UNCHANGED resp
    /\ UNCHANGED <<users, nextId, regEmails>>
    /\ UNCHANGED tokenVars
    /\ UNCHANGED contentVars

\* DELETE /users/:id from userRepo.Delete on
DeleteWrite(p) ==
    /\ ops[p].kind = "delete"
    /\ ops[p].pc = "delete"
    /\ users' = RepoDelete(users, ops[p].row.id)
    /\ discussions' = CascadeUser(discussions, ops[p].row.id)
    /\ subscriptions' = CascadeSubscriptions(subscriptions, users', discussions')
    /\ discussionTags' = CascadeDiscussionTags(discussionTags, discussions')
    /\ comments' = CascadeComments(comments, users', discussions')
    /\ resp' = Respond("delete", StatusNoContent, "", ops[p].row.id, ErrNone)
    /\ ops' = [ops EXCEPT ![p] = IdleOp]
    /\ UNCHANGED <<nextId, regEmails, nextDisc, nextComment>>
    /\ UNCHANGED sideVars
    /\ UNCHANGED tokenVars

----------------------------------------------------------------------------
(* internal/discussion, internal/comment, internal/subscription and the
   user controller behind the request pipeline *)

ErrForeignKey == "insert or update violates foreign key constraint"
ErrService == "service error"

\* CreateDiscussionDTO.Validate
CreateDiscussionValidate(dto) ==
    IF StrOf(dto.title) = "" THEN "title is required"
    ELSE IF StrOf(dto.content) = "" THEN "content is required"
    ELSE ErrNone

\* UpdateDiscussionDTO.Validate
UpdateDiscussionValidate(dto) ==
    IF dto.title = {} /\ dto.content = {} /\ dto.scheduledAt = {}
    THEN "at least one field must be provided"
    ELSE ErrNone

\* ScheduleDTO.Validate; a time the body lacks is the zero time
ScheduleValidate(dto) ==
    IF StrOf(dto.title) = "" THEN "title is required"
    ELSE IF StrOf(dto.content) = "" THEN "content is required"
    ELSE IF dto.scheduledAt = {} THEN "scheduled_at is required"
    ELSE ErrNone

NoDiscussion == [id |-> 0, userID |-> 0, title |-> "", content |-> "",
                 scheduledAt |-> {}, createdAt |-> 0, updatedAt |-> 0]

\* repo.Create of discussions: INSERT ... RETURNING id, under the foreign
\* key of user_id; the sequence advances even when the insert is rejected
DiscussionRepoCreate(rows, seq, d, accounts) ==
    IF \A u \in accounts : u.id # d.userID
    THEN [err |-> ErrForeignKey, id |-> 0, rows |-> rows, seq |-> seq + 1]
    ELSE [err |-> ErrNone, id |-> seq, rows |-> rows \cup {[d EXCEPT !.id = seq]},
          seq |-> seq + 1]

\* repo.GetByID of discussions: the rows found (none or one)
DiscussionGetByID(rows, id) == {d \in rows : d.id = id}

\* repo.Update of discussions: UPDATE ... WHERE id
DiscussionRepoUpdate(rows, d, t) ==
    {IF r.id = d.id
     THEN [r EXCEPT !.title = d.title, !.content = d.content,
                    !.scheduledAt = d.scheduledAt, !.updatedAt = t]
     ELSE r : r \in rows}

\* repo.Delete of discussions
DiscussionRepoDelete(rows, id) == {r \in rows : r.id # id}

\* service.Create and service.Schedule of discussions: the row handed to
\* repo.Create
NewDiscussion(userID, dto, t) ==
    [NoDiscussion EXCEPT !.userID = userID, !.title = StrOf(dto.title),
                         !.content = StrOf(dto.content),
                         !.scheduledAt = dto.scheduledAt,
                         !.createdAt = t, !.updatedAt = t]

\* service.Update of discussions, lines 63-72: the DTO applied to the row read
ApplyDiscussionUpdate(d, dto, t) ==
    [d EXCEPT !.title = IF dto.title = {} THEN @ ELSE Only(dto.title),
              !.content = IF dto.content = {} THEN @ ELSE Only(dto.content),
              !.scheduledAt = IF dto.scheduledAt = {} THEN @ ELSE dto.scheduledAt,
              !.updatedAt = t]

\* a call of a service method by a handler: the method and its arguments;
\* userID is a set, empty for a nil *int
ServiceCall(name, userID, discussionID, dto) ==
    [name |-> name, userID |-> userID, discussionID |-> discussionID,
     content |-> StrOf(dto.content), email |-> StrOf(dto.email)]

\* what a step of a handler leaves behind: the response, the tables and the
\* service calls it made; rows is the list of the response body, subCalls
\* the calls of the subscription repository, and pending the row a service
\* has read and is still to write back (none once the handler has returned)
Outcome(status, body, id, db, svc) ==
    [status |-> status, body |-> body, id |-> id, users |-> db.users,
     discussions |-> db.discussions, nextDisc |-> db.nextDisc,
     subscriptions |-> db.subscriptions, comments |-> db.comments,
     nextComment |-> db.nextComment, svc |-> svc,
     rows |-> <<>>, subCalls |-> {}, pending |-> {}]

\* the service has read a row and goes on to its repository write
Pending(db, svc, row) ==
    [Outcome(0, "", 0, db, svc) EXCEPT !.pending = {row}]

\* Controller.Create of discussions, POST /discussions
DiscussionCreate(keys, db, param, dto, t, fail) ==
    LET g == GetUserID(keys)
        call == ServiceCall("discussion.Create", {g.uid}, 0, dto)
    IN  IF CreateDiscussionValidate(dto) # ErrNone
        THEN Outcome(StatusBadRequest, "invalid payload", 0, db, <<>>)
        ELSE Only({
            IF c.err # ErrNone
            THEN Outcome(StatusInternalServerError, "could not create", 0,
                         [db EXCEPT !.nextDisc = c.seq], <<call>>)
            ELSE Outcome(StatusCreated, "id", c.id,
                         [db EXCEPT !.discussions = c.rows, !.nextDisc = c.seq], <<call>>)
            : c \in {DiscussionRepoCreate(db.discussions, db.nextDisc,
                                          NewDiscussion(g.uid, dto, t), db.users)} })

\* Controller.Schedule of discussions, POST /discussions/schedule
DiscussionSchedule(keys, db, param, dto, t, fail) ==
    LET g == GetUserID(keys)
        call == ServiceCall("discussion.Schedule", {g.uid}, 0, dto)
    IN  IF ScheduleValidate(dto) # ErrNone
        THEN Outcome(StatusBadRequest, "invalid payload", 0, db, <<>>)
        ELSE Only({
            IF c.err # ErrNone
            THEN Outcome(StatusInternalServerError, "could not schedule", 0,
                         [db EXCEPT !.nextDisc = c.seq], <<call>>)
            ELSE Outcome(StatusCreated, "id", c.id,
                         [db EXCEPT !.discussions = c.rows, !.nextDisc = c.seq], <<call>>)
            : c \in {DiscussionRepoCreate(db.discussions, db.nextDisc,
                                          NewDiscussion(g.uid, dto, t), db.users)} })

\* Controller.Update of discussions allowing only the author
DiscussionUpdate_OwnerOnly(keys, db, param, dto, t, fail) ==
    LET found == DiscussionGetByID(db.discussions, param)
        call == ServiceCall("discussion.Update", {}, param, dto)
    IN  IF UpdateDiscussionValidate(dto) # ErrNone
        THEN Outcome(StatusBadRequest, "invalid payload", 0, db, <<>>)
        ELSE IF found = {}
        THEN Outcome(StatusOK, "null", 0, db, <<call>>)
        ELSE IF \E d \in found : d.userID # GetUserID(keys).uid
        THEN Outcome(403, "forbidden", 0, db, <<>>)
        ELSE Pending(db, <<call>>, ApplyDiscussionUpdate(Only(found), dto, t))

\* Controller.Update of discussions, PUT /discussions/:id, up to the row
\* read: binding and validation, then service.Update with repo.GetByID and
\* the DTO applied to the row; service.Update returns (nil, nil) for an id
\* with no row and the handler answers 200
DiscussionUpdate(keys, db, param, dto, t, fail) ==
    LET found == DiscussionGetByID(db.discussions, param)
        call == ServiceCall("discussion.Update", {}, param, dto)
    IN  IF UpdateDiscussionValidate(dto) # ErrNone
        THEN Outcome(StatusBadRequest, "invalid payload", 0, db, <<>>)
        ELSE IF found = {}
        THEN Outcome(StatusOK, "null", 0, db, <<call>>)
        ELSE Pending(db, <<call>>, ApplyDiscussionUpdate(Only(found), dto, t))

\* Controller.Update of discussions from repo.Update on: the row read and
\* changed is written to the table as it stands now, and answered 200
DiscussionUpdateStore(keys, db, row, dto, t, fail) ==
    Outcome(StatusOK, "discussion", row.id,
            [db EXCEPT !.discussions = DiscussionRepoUpdate(db.discussions, row, t)],
            <<>>)

\* the lists holding each row of a set once
RECURSIVE Orderings(_)
Orderings(S) ==
    IF S = {} THEN {<<>>}
    ELSE UNION {{<<x>> \o rest : rest \in Orderings(S \ {x})} : x \in S}

\* repo.GetAll of discussions: SELECT ... FROM discussions ORDER BY
\* created_at DESC; the lists the query may return, rows of equal
\* created_at coming in either order
DiscussionGetAll(rows) ==
    {list \in Orderings(rows) :
        \A i, j \in DOMAIN list : i < j => list[i].createdAt >= list[j].createdAt}

\* Controller.List of discussions, GET /discussions, for the list that
\* repo.GetAll returned: the JSON array of the body
DiscussionList(keys, db, param, dto, t, list) ==
    [Outcome(StatusOK, "discussions", 0, db,
             <<ServiceCall("discussion.GetAll", {}, 0, dto)>>)
        EXCEPT !.rows = list]

\* Controller.Get of discussions, GET /discussions/:id
DiscussionGet(keys, db, param, dto, t, fail) ==
    LET found == DiscussionGetByID(db.discussions, param)
        call == ServiceCall("discussion.GetByID", {}, param, dto)
    IN  IF found = {}
        THEN Outcome(StatusNotFound, "not found", 0, db, <<call>>)
        ELSE [Outcome(StatusOK, "discussion", param, db, <<call>>)
                 EXCEPT !.rows = <<Only(found)>>]

\* Controller.Delete of discussions, DELETE /discussions/:id
DiscussionDelete(keys, db, param, dto, t, fail) ==
    Outcome(StatusNoContent, "", param,
            [db EXCEPT !.discussions = DiscussionRepoDelete(db.discussions, param)],
            <<ServiceCall("discussion.Delete", {}, param, dto)>>)

\* repository.Create of comments: INSERT INTO comments ... RETURNING id,
\* under the foreign keys of discussion_id and user_id; the sequence
\* advances even when the insert is rejected
CommentRepoCreate(rows, seq, c, accounts, posts) ==
    IF \/ \A d \in posts : d.id # c.discussionID
       \/ \A a \in accounts : a.id # c.userID
    THEN [err |-> ErrForeignKey, id |-> 0, rows |-> rows, seq |-> seq + 1]
    ELSE [err |-> ErrNone, id |-> seq, rows |-> rows \cup {[c EXCEPT !.id = seq]},
          seq |-> seq + 1]

\* service.AddComment: the row handed to repository.Create
NewComment(discussionID, userID, content, t) ==
    [id |-> 0, discussionID |-> discussionID, userID |-> userID,
     content |-> content, createdAt |-> t]

\* Controller.Create of comments, POST /discussions/:id/comments, with
\* service.AddComment and repository.Create
CommentCreate(keys, db, param, dto, t, fail) ==
    LET g == GetUserID(keys)
        call == ServiceCall("comment.AddComment", {g.uid}, param, dto)
    IN  IF StrOf(dto.content) = ""
        THEN Outcome(StatusBadRequest, "content is required", 0, db, <<>>)
        ELSE IF ~g.ok
        THEN Outcome(StatusUnauthorized, "authentication required", 0, db, <<>>)
        ELSE Only({
            IF c.err # ErrNone
            THEN Outcome(StatusInternalServerError, "could not add comment", 0,
                         [db EXCEPT !.nextComment = c.seq], <<call>>)
            ELSE Outcome(StatusCreated, "id", c.id,
                         [db EXCEPT !.comments = c.rows, !.nextComment = c.seq],
                         <<call>>)
            : c \in {CommentRepoCreate(db.comments, db.nextComment,
                                       NewComment(param, g.uid, StrOf(dto.content), t),
                                       db.users, db.discussions)} })

\* UserController.UpdateProfile with UserService.Update, PUT /users/:id, up
\* to the row read: validation, userRepo.GetByID and the DTO applied to the
\* row
UpdateProfile(keys, db, param, dto, t, fail) ==
    LET found == GetByID(db.users, param)
        call == ServiceCall("user.Update", {}, param, dto)
    IN  IF UpdateValidate(dto) # ErrNone
        THEN Outcome(StatusBadRequest, UpdateValidate(dto), 0, db, <<>>)
        ELSE IF found = {}
        THEN Outcome(StatusNotFound, "user not found", 0, db, <<call>>)
        ELSE Pending(db, <<call>>, ApplyUpdate(Only(found), dto, Only(Salts), t))

\* UserController.UpdateProfile from userRepo.Update on: the row read and
\* changed is written to the table as it stands now
UpdateProfileStore(keys, db, row, dto, t, fail) ==
    Only({
        IF u.err # ErrNone
        THEN Outcome(StatusInternalServerError, "server error", 0, db, <<>>)
        ELSE Outcome(StatusOK, "user", row.id, [db EXCEPT !.users = u.rows], <<>>)
        : u \in {RepoUpdate(db.users, row, t)} })

\* UserController.DeleteProfile with UserService.Delete, DELETE /users/:id,
\* up to the row read by userRepo.GetByID
DeleteProfile(keys, db, param, dto, t, fail) ==
    LET found == GetByID(db.users, param)
        call == ServiceCall("user.Delete", {}, param, dto)
    IN  IF found = {}
        THEN Outcome(StatusNotFound, "user not found", 0, db, <<call>>)
        ELSE Pending(db, <<call>>, Only(found))

\* UserController.DeleteProfile from userRepo.Delete on, with the cascade of
\* discussions.user_id
DeleteProfileStore(keys, db, row, dto, t, fail) ==
    Outcome(StatusNoContent, "", row.id,
            [db EXCEPT !.users = RepoDelete(db.users, row.id),
                       !.discussions = CascadeUser(db.discussions, row.id)],
            <<>>)

\* the emails of subscribers
SubEmails == {"a@x.com", "b@x.com"}

\* the (discussion id, email) pairs of subscription calls
SubPairs == (1..MaxDisc) \X SubEmails

\* no repository call made yet for a pair
NoCall == [name |-> "none", userID |-> {}, err |-> ErrNone]

\* the rows of subscriptions for a (discussion id, email) pair
SubscriptionsOf(rows, pair) ==
    {s \in rows : s.discussionID = pair[1] /\ s.email = pair[2]}

\* Repository.CreateSubscription without its ON CONFLICT target
CreateSubscription_PlainInsert(rows, sub, accounts, posts) ==
    IF \A d \in posts : d.id # sub.discussionID
    THEN [err |-> ErrForeignKey, rows |-> rows]
    ELSE [err |-> ErrNone, rows |-> rows \cup {sub}]

\* Repository.CreateSubscription: INSERT ... ON CONFLICT (discussion_id,
\* email) DO NOTHING; a row of the pair already stored ends the statement
\* with no error before the foreign keys of discussion_id and user_id are
\* tested for the row to insert
CreateSubscription(rows, sub, accounts, posts) ==
    IF SubscriptionsOf(rows, <<sub.discussionID, sub.email>>) # {}
    THEN [err |-> ErrNone, rows |-> rows]
    ELSE IF \A d \in posts : d.id # sub.discussionID
    THEN [err |-> ErrForeignKey, rows |-> rows]
    ELSE IF \E u \in sub.userID : \A a \in accounts : a.id # u
    THEN [err |-> ErrForeignKey, rows |-> rows]
    ELSE [err |-> ErrNone, rows |-> rows \cup {sub}]

\* Repository.DeleteSubscription: DELETE ... WHERE discussion_id AND email
DeleteSubscription(rows, discussionID, email) ==
    [err |-> ErrNone,
     rows |-> rows \ SubscriptionsOf(rows, <<discussionID, email>>)]

\* what ShouldBindJSON returns for a SubscribeDTO: the line that go-playground's validation writes for
\* each field that fails its binding tag, in the order of the fields
FieldError(field, tag) ==
    "Key: 'SubscribeDTO." \o field \o "' Error:Field validation for '"
        \o field \o "' failed on the '" \o tag \o "' tag"

\* strings that are no email address, among those of request bodies
MalformedEmails == {"nomail"}

\* the binding tags of SubscribeDTO: email "required,email", subscribed_at
\* "required"; the lines of the error, none when the body binds
SubscribeBinding(dto) ==
    (IF StrOf(dto.email) = "" THEN <<FieldError("Email", "required")>>
     ELSE IF StrOf(dto.email) \in MalformedEmails
     THEN <<FieldError("Email", "email")>>
     ELSE <<>>)
    \o (IF dto.subscribedAt = {} THEN <<FieldError("SubscribedAt", "required")>>
        ELSE <<>>)

\* err.Error() of the binding error: its lines joined by newlines
BindingErrorText(lines) ==
    IF Len(lines) = 1 THEN lines[1] ELSE lines[1] \o "\n" \o lines[2]

\* SubscriptionController.Subscribe, POST /discussions/:id/subscribe, with
\* Service.Subscribe handing the subscription to
\* Repository.CreateSubscription: the optional identity is read under the
\* key "userId", and subscribed_at is the instant of the body
Subscribe(keys, db, param, dto, t, fail) ==
    LET uid == IF "userId" \in DOMAIN keys THEN keys["userId"] ELSE 0
        userID == IF uid # 0 THEN {uid} ELSE {}
        call == ServiceCall("subscription.Subscribe", userID, param, dto)
        sub == [discussionID |-> param, userID |-> userID,
                email |-> StrOf(dto.email), subscribedAt |-> Only(dto.subscribedAt)]
    IN  IF SubscribeBinding(dto) # <<>>
        THEN Outcome(StatusBadRequest, BindingErrorText(SubscribeBinding(dto)), 0,
                     db, <<>>)
        ELSE Only({
            [(IF c.err # ErrNone
              THEN Outcome(StatusInternalServerError, "failed to subscribe", 0, db,
                           <<call>>)
              ELSE Outcome(StatusCreated, "subscribed successfully", 0,
                           [db EXCEPT !.subscriptions = c.rows], <<call>>))
             EXCEPT !.subCalls =
                {[pair |-> <<param, StrOf(dto.email)>>,
                  call |-> [name |-> "subscribe", userID |-> userID, err |-> c.err]]}]
            : c \in {CreateSubscription(db.subscriptions, sub, db.users,
                                        db.discussions)} })

\* the tag names of request bodies
TagNames == {"go", "db"}

\* no AddTags call in flight
IdleTagOp == [pc |-> "idle", discussionID |-> 0, all |-> <<>>, names |-> <<>>,
              tagIDs |-> <<>>, created |-> {}, linked |-> {}, err |-> ErrNone]

\* the tags lists of request bodies
TagLists == {<<"go">>, <<"go", "db">>}

\* tag repo.GetByName: the rows found (none or one)
TagGetByName(rows, name) == {t \in rows : t.name = name}

\* tag repo.Create: INSERT INTO tags ... RETURNING id, under UNIQUE (name);
\* the sequence advances even when the insert is rejected
TagCreate(rows, seq, name, t) ==
    IF \E r \in rows : r.name = name
    THEN [err |-> ErrUniqueViolation, id |-> 0, rows |-> rows, seq |-> seq + 1]
    ELSE [err |-> ErrNone, id |-> seq,
          rows |-> rows \cup {[id |-> seq, name |-> name, createdAt |-> t]},
          seq |-> seq + 1]

\* discussion repo.AddTags: one transaction inserting a link per tag id,
\* ON CONFLICT DO NOTHING, under the foreign keys of discussion_tags; an
\* insert that fails rolls the transaction back
RepoAddTags(rows, discussionID, tagIDs, posts, tagRows) ==
    IF /\ tagIDs # <<>>
       /\ \/ \A d \in posts : d.id # discussionID
          \/ \E i \in DOMAIN tagIDs : \A t \in tagRows : t.id # tagIDs[i]
    THEN [err |-> ErrForeignKey, rows |-> rows]
    ELSE [err |-> ErrNone,
          rows |-> rows \cup {[discussionID |-> discussionID, tagID |-> tagIDs[i]]
                                : i \in DOMAIN tagIDs}]

\* no request in flight, and the tables of subscriptions and tags empty
InitSide ==
    /\ ctxs = [p \in Procs |-> IdleReq]
    /\ subscriptions = {}
    /\ lastCall = [pair \in SubPairs |-> NoCall]
    /\ tags = {}
    /\ nextTag = 1
    /\ discussionTags = {}
    /\ comments = {}
    /\ nextComment = 1
    /\ tagOps = [p \in Procs |-> IdleTagOp]

InitStore ==
    /\ users = {}
    /\ nextId = 1
    /\ ops = [p \in Procs |-> IdleOp]
    /\ resp = NoResp
    /\ regEmails = {}
    /\ discussions = {}
    /\ nextDisc = 1
    /\ InitSide

\* the server listens only once LoadConfig has found JWT_SECRET set
Init ==
    /\ now = 0
    /\ jwtSecret = <<"k">>
    /\ jwtExpiresIn \in ExpiresInValues
    /\ verifyFirst \in BOOLEAN
    /\ issued = NoToken
    /\ req = IdleReq
    /\ InitStore

Next ==
    \/ Advance
    \/ Issue
    \/ Receive
    \/ Middleware
    \/ Handler

Spec == Init /\ [][Next]_vars

\* the accounts do not depend on the token configuration
InitAccounts ==
    /\ Init
    /\ jwtSecret = <<"k">>
    /\ jwtExpiresIn = <<>>
    /\ verifyFirst

\* Register calls made one after the other
NextRegister ==
    \/ RegisterLookup(1)
    \/ RegisterInsert(1)

SpecRegister == InitAccounts /\ [][NextRegister]_vars

\* requests served one at a time: process 1 alone
NextSeq ==
    \/ RegisterLookup(1)
    \/ RegisterInsert(1)
    \/ Login(1)
    \/ UpdateRead(1)
    \/ UpdateWrite(1)
    \/ DeleteRead(1)
    \/ DeleteWrite(1)

SpecSeq == InitAccounts /\ [][NextSeq]_vars

\* Register, UpdateProfile and DeleteProfile requests served concurrently,
\* interleaved at their database calls
NextAccounts ==
    \E p \in Procs :
        \/ RegisterLookup(p)
        \/ RegisterInsert(p)
        \/ UpdateRead(p)
        \/ UpdateWrite(p)
        \/ DeleteRead(p)
        \/ DeleteWrite(p)

SpecAccounts == InitAccounts /\ [][NextAccounts]_vars

\* Register requests of two processes, their lookups and inserts interleaved
NextRace ==
    \E p \in Procs :
        \/ RegisterLookup(p)
        \/ RegisterInsert(p)

SpecRace == InitAccounts /\ [][NextRace]_vars

\* JWT_SECRET changes in the environment (getSigningKey reads it on every
\* call); tokens already handed out stay with their holders
Setenv ==
    /\ \E sec \in Secrets \cup {OtherKey} : sec # jwtSecret /\ jwtSecret' = sec
    /\ UNCHANGED <<now, jwtExpiresIn, verifyFirst, issued, req>>
    /\ UNCHANGED storeVars

\* the client presents the token it holds on a route of the protected group
PresentToken ==
    /\ req.stage \in {"idle", "done"}
    /\ issued.err = ErrNone
    /\ issued.tok # <<>>
    /\ req' = [IdleReq EXCEPT !.stage = "mw", !.route = "protected",
                              !.header = Bearer \o Space \o issued.tok]
    /\ UNCHANGED <<now, jwtSecret, jwtExpiresIn, verifyFirst, issued>>
    /\ UNCHANGED storeVars

\* a client that logs in and then uses its token while accounts are
\* registered, changed and deleted
NextSession ==
    \/ RegisterLookup(1)
    \/ RegisterInsert(1)
    \/ Login(1)
    \/ UpdateRead(1)
    \/ UpdateWrite(1)
    \/ DeleteRead(1)
    \/ DeleteWrite(1)
    \/ PresentToken
    \/ Middleware
    \/ Handler

SpecSession == InitAccounts /\ [][NextSession]_vars

\* tokens issued and presented while the secret changes and time passes
NextRekey ==
    \/ Setenv
    \/ Issue
    \/ PresentToken
    \/ Middleware
    \/ Handler
    \/ Advance

SpecRekey == Init /\ [][NextRekey]_vars

----------------------------------------------------------------------------
(* Properties of the token codec and the middleware *)

\* the header is a case-insensitive "Bearer", one space, and a remainder
HasBearerShape(h) ==
    /\ Len(h) > Len(Bearer)
    /\ ToLower(SubSeq(h, 1, Len(Bearer))) = bearer
    /\ h[Len(Bearer) + 1] = " "

\* the same with a non-empty remainder that does not start with a space
HasExactBearerShape(h) ==
    /\ HasBearerShape(h)
    /\ Len(h) > Len(Bearer) + 1
    /\ h[Len(Bearer) + 2] # " "

TokenPart(h) == SubSeq(h, Len(Bearer) + 2, Len(h))

\* the middleware called ExtractUserID once, on the token of the header,
\* and that token is one ExtractUserID accepts at the instant of the call
VerifyAccepted ==
    /\ HasBearerShape(req.header)
    /\ Len(req.calls) = 1
    /\ req.calls[1].arg = TokenPart(req.header)
    /\ ExtractUserID(TokenPart(req.header), req.calls[1].at, jwtSecret, verifyFirst).err = ErrNone

\* C1: on a protected route the handler runs only after the header had the
\* Bearer shape and ExtractUserID accepted its token; a request the
\* middleware handled otherwise is answered 401 and its handler never runs
C1_HandlerOnlyBehindValidToken ==
    req.route = "protected" =>
        /\ (req.stage = "handler" \/ req.handlerRan) => VerifyAccepted
        /\ (req.mwRan /\ ~VerifyAccepted) =>
              /\ req.stage = "done"
              /\ req.status = StatusUnauthorized
              /\ ~req.handlerRan

C1_Witness ==
    /\ req.route = "protected"
    /\ req.stage = "done"
    /\ req.handlerRan
    /\ req.status = StatusOK

\* C2: the request context holds a user id exactly when the middleware ran
\* on this request and ExtractUserID accepted its token, the id held is the
\* user_id claim of that token, and otherwise GetUserID gives (0, false)
C2_IdentityOnlyFromMiddleware ==
    LET g == GetUserID(req.keys)
    IN  /\ g.ok <=> (req.mwRan /\ VerifyAccepted)
        /\ g.ok => g.uid = DecodeClaims(Split(TokenPart(req.header), ".")[2]).claims.uid
        /\ ~g.ok => g = [uid |-> 0, ok |-> FALSE]

C2_Witness ==
    /\ GetUserID(req.keys).ok
    /\ req.handlerRan
    /\ req.userID = issued.uid
    /\ issued.err = ErrNone

\* the instant of the exp claim of the issued token
IssuedExpiry == NewNumericDate(issued.at + issued.ttl) * TicksPerSecond

\* C3: a token GenerateToken returned is accepted by ExtractUserID, with
\* the user id it was issued for, at every instant before its expiry
C3_RoundTrip ==
    (issued.err = ErrNone /\ now < IssuedExpiry) =>
        ExtractUserID(issued.tok, now, jwtSecret, verifyFirst)
            = [uid |-> issued.uid, err |-> ErrNone]

C3_Witness ==
    /\ issued.err = ErrNone
    /\ now > issued.at
    /\ now < IssuedExpiry

C4Rejected ==
    (issued.err = ErrNone /\ now >= issued.at + issued.ttl) =>
        ExtractUserID(issued.tok, now, jwtSecret, verifyFirst).err = ErrTokenExpired

C4StaysExpired ==
    now' # now =>
        \A tok \in IssuedTokens \cup {SignedString("HS256", c, <<"k">>) : c \in CraftedClaims} :
            ExtractUserID(tok, now, jwtSecret, verifyFirst).err = ErrTokenExpired
                => ExtractUserID(tok, now', jwtSecret', verifyFirst').err = ErrTokenExpired

\* C4: a token issued at t with validity d is rejected as expired at every
\* instant from t + d on, and a token rejected as expired is rejected as
\* expired at every later instant
C4_ExpiredForever == [](C4Rejected) /\ [][C4StaysExpired]_vars

C4_Witness ==
    /\ issued.err = ErrNone
    /\ now >= issued.at + issued.ttl
    /\ now > IssuedExpiry

\* C5: a failed ExtractUserID is answered 401, with body "token expired"
\* exactly when the error is ErrTokenExpired and "invalid token" otherwise;
\* malformed and invalid tokens get the same body
C5_ExpiredDistinguished ==
    /\ (req.mwRan /\ Len(req.calls) = 1 /\ req.calls[1].err # ErrNone) =>
          /\ req.status = StatusUnauthorized
          /\ req.stage = "done"
          /\ req.calls[1].err = ErrTokenExpired => req.body = "token expired"
          /\ req.calls[1].err # ErrTokenExpired => req.body = "invalid token"
    /\ VerifyErrorBody(ErrTokenMalformed) = VerifyErrorBody(ErrTokenInvalid)
    /\ VerifyErrorBody(ErrTokenMalformed) # VerifyErrorBody(ErrTokenExpired)

C5_Witness ==
    /\ req.mwRan
    /\ Len(req.calls) = 1
    /\ req.calls[1].err = ErrTokenExpired
    /\ req.body = "token expired"

\* the token parses, is signed under the configured key with an HMAC
\* method, and the expiry check is the only claim check that fails at t
OnlyExpiryFails(tok, t) ==
    LET u == ParseUnverified(tok)
        parts == Split(tok, ".")
    IN  /\ u.errs = {}
        /\ u.alg \in HMACAlgs
        /\ HMACVerify(u.alg, Join(SubSeq(parts, 1, 2), "."), parts[3], jwtSecret)
        /\ ClaimsValid(u.claims, t) = {"Expired"}

\* C6: ExtractUserID fails with ErrTokenExpired only when the expiry check
\* is the only check that fails
C6_ExpiredOnlyWhenSoleFailure ==
    \A i \in 1..Len(req.calls) :
        req.calls[i].err = ErrTokenExpired => OnlyExpiryFails(req.calls[i].arg, req.calls[i].at)

\* C7: a header that is not exactly "Bearer", one space and a token is
\* answered 401 "invalid auth header" without any call of ExtractUserID
C7_OnlyExactShapeReachesVerify ==
    (req.mwRan /\ ~HasExactBearerShape(req.header)) =>
        /\ req.status = StatusUnauthorized
        /\ req.body = "invalid auth header"
        /\ req.calls = <<>>

----------------------------------------------------------------------------
(* the routes of users, discussions, comments and subscriptions *)

\* user ids for which a client presents a token
Callers == {1, 2}

\* the scheduled_at value of request bodies
ScheduleInstant == TicksPerMinute

\* the routes that create a record for the caller
CreateRoutes ==
    {"POST /discussions", "POST /discussions/schedule",
     "POST /discussions/:id/comments", "POST /discussions/:id/subscribe"}

\* the routes that change or remove a stored record
ChangeRoutes ==
    {"PUT /discussions/:id", "DELETE /discussions/:id",
     "PUT /users/:id", "DELETE /users/:id"}

\* request bodies per route
RouteDTOs(route) ==
    CASE route = "POST /discussions" ->
            {[NoDTO EXCEPT !.title = {"t"}, !.content = {"c"}],
             [NoDTO EXCEPT !.content = {"c"}]}
      [] route = "POST /discussions/schedule" ->
            {[NoDTO EXCEPT !.title = {"t"}, !.content = {"c"},
                           !.scheduledAt = {ScheduleInstant}]}
      [] route = "PUT /discussions/:id" -> {[NoDTO EXCEPT !.title = {"u"}]}
      [] route = "POST /discussions/:id/comments" ->
            {[NoDTO EXCEPT !.content = {"c"}], NoDTO}
      [] route = "POST /discussions/:id/subscribe" ->
            {[NoDTO EXCEPT !.email = {"a@x.com"}, !.subscribedAt = {0}],
             [NoDTO EXCEPT !.email = {"nomail"}, !.subscribedAt = {0}],
             [NoDTO EXCEPT !.subscribedAt = {0}],
             NoDTO}
      [] route = "PUT /users/:id" -> {[NoDTO EXCEPT !.fullName = {"Al"}]}
      [] OTHER -> {NoDTO}

\* the :id path parameter per route
RouteParams(route) ==
    IF route \in {"POST /discussions", "POST /discussions/schedule",
                  "GET /discussions"}
    THEN {0} ELSE 1..MaxDisc

\* who sends the request: a client with the token of an account, or with no
\* token (0); every route is mounted behind JWTAuthMiddleware
Arrivals == {0} \cup Callers

\* a request arrives on one of the routes
ReceiveOn(routes) ==
    /\ req.stage \in {"idle", "done"}
    /\ \E route \in routes, caller \in Arrivals :
         \E param \in RouteParams(route), dto \in RouteDTOs(route) :
           \E g \in {GenerateToken(caller, now, jwtSecret, jwtExpiresIn)} :
             req' = [IdleReq EXCEPT
                        !.stage = "mw",
                        !.route = route,
                        !.header = IF caller = 0 \/ g.err # ErrNone THEN <<>>
                                   ELSE Bearer \o Space \o g.tok,
                        !.param = param, !.dto = dto, !.caller = caller]
    /\ UNCHANGED <<now, jwtSecret, jwtExpiresIn, verifyFirst, issued>>
    /\ UNCHANGED storeVars

ReceiveCreate == ReceiveOn(CreateRoutes)

ReceiveChange == ReceiveOn(ChangeRoutes)

\* the tables a handler works on
DB == [users |-> users, discussions |-> discussions, nextDisc |-> nextDisc,
       subscriptions |-> subscriptions, comments |-> comments,
       nextComment |-> nextComment]

\* the handler of the route is to run on the request
Serving(route) == req.stage = "handler" /\ req.route = route

\* the handler of the route has read a row and its service is to write
Storing(route) == req.stage = "write" /\ req.route = route

\* a step of the handler has run: its changes are stored, with the cascades
\* of the foreign keys, and either its response is written or the row it
\* read is kept for the write to come
Finish(out) ==
    /\ req' = [req EXCEPT
                  !.stage = IF out.pending = {} THEN "done" ELSE "write",
                  !.status = out.status, !.body = out.body,
                  !.id = out.id, !.svc = req.svc \o out.svc, !.rows = out.rows,
                  !.read = out.pending,
                  !.handlerRan = out.pending = {}]
    /\ users' = out.users
    /\ discussions' = out.discussions
    /\ nextDisc' = out.nextDisc
    /\ subscriptions' = CascadeSubscriptions(out.subscriptions, users', discussions')
    /\ discussionTags' = CascadeDiscussionTags(discussionTags, discussions')
    /\ comments' = CascadeComments(out.comments, users', discussions')
    /\ nextComment' = out.nextComment
    /\ lastCall' = [pair \in SubPairs |->
                       IF \E c \in out.subCalls : c.pair = pair
                       THEN Only({c.call : c \in {x \in out.subCalls : x.pair = pair}})
                       ELSE lastCall[pair]]
    /\ UNCHANGED <<now, jwtSecret, jwtExpiresIn, verifyFirst, issued>>
    /\ UNCHANGED <<nextId, ops, resp, regEmails>>
    /\ UNCHANGED <<ctxs, tags, nextTag, tagOps>>

PostDiscussions ==
    /\ Serving("POST /discussions")
    /\ nextDisc <= MaxDisc
    /\ \E out \in {DiscussionCreate(req.keys, DB, req.param, req.dto, now, FALSE)} :
          Finish(out)

PostDiscussionsSchedule ==
    /\ Serving("POST /discussions/schedule")
    /\ nextDisc <= MaxDisc
    /\ \E out \in {DiscussionSchedule(req.keys, DB, req.param, req.dto, now, FALSE)} :
          Finish(out)

\* PUT /discussions/:id up to the row read by service.Update
PutDiscussion ==
    /\ Serving("PUT /discussions/:id")
    /\ \E out \in {DiscussionUpdate(req.keys, DB, req.param, req.dto, now, FALSE)} :
          Finish(out)

\* PUT /discussions/:id from repo.Update on
PutDiscussionStore ==
    /\ Storing("PUT /discussions/:id")
    /\ \E out \in {DiscussionUpdateStore(req.keys, DB, Only(req.read), req.dto, now,
                                         FALSE)} :
          Finish(out)

DeleteDiscussion ==
    /\ Serving("DELETE /discussions/:id")
    /\ \E out \in {DiscussionDelete(req.keys, DB, req.param, req.dto, now, FALSE)} :
          Finish(out)

PostComment ==
    /\ Serving("POST /discussions/:id/comments")
    /\ nextComment <= MaxComment
    /\ \E out \in {CommentCreate(req.keys, DB, req.param, req.dto, now, FALSE)} :
          Finish(out)

PostSubscribe ==
    /\ Serving("POST /discussions/:id/subscribe")
    /\ \E out \in {Subscribe(req.keys, DB, req.param, req.dto, now, FALSE)} :
          Finish(out)

\* PUT /users/:id up to the row read by UserService.Update
PutUser ==
    /\ Serving("PUT /users/:id")
    /\ \E out \in {UpdateProfile(req.keys, DB, req.param, req.dto, now, FALSE)} :
          Finish(out)

\* PUT /users/:id from userRepo.Update on
PutUserStore ==
    /\ Storing("PUT /users/:id")
    /\ \E out \in {UpdateProfileStore(req.keys, DB, Only(req.read), req.dto, now,
                                      FALSE)} :
          Finish(out)

\* DELETE /users/:id up to the row read by UserService.Delete
DeleteUser ==
    /\ Serving("DELETE /users/:id")
    /\ \E out \in {DeleteProfile(req.keys, DB, req.param, req.dto, now, FALSE)} :
          Finish(out)

\* DELETE /users/:id from userRepo.Delete on
DeleteUserStore ==
    /\ Storing("DELETE /users/:id")
    /\ \E out \in {DeleteProfileStore(req.keys, DB, Only(req.read), req.dto, now,
                                      FALSE)} :
          Finish(out)

\* two registered accounts
Accounts ==
    {[NoRow EXCEPT !.id = 1, !.username = "alice", !.email = "a@x.com",
                   !.passwordHash = GenerateFromPassword("secret123", "s1")],
     [NoRow EXCEPT !.id = 2, !.username = "bob", !.email = "b@x.com",
                   !.passwordHash = GenerateFromPassword("secret123", "s1")]}

\* the server with its secret configured and two accounts registered
InitContent ==
    /\ now = 0
    /\ jwtSecret = <<"k">>
    /\ jwtExpiresIn = <<>>
    /\ verifyFirst \in BOOLEAN
    /\ issued = NoToken
    /\ req = IdleReq
    /\ users = Accounts
    /\ nextId = 3
    /\ ops = [p \in Procs |-> IdleOp]
    /\ resp = NoResp
    /\ regEmails = {"a@x.com", "b@x.com"}
    /\ discussions = {}
    /\ nextDisc = 1
    /\ InitSide

NextContent ==
    \/ ReceiveCreate
    \/ Middleware
    \/ PostDiscussions
    \/ PostDiscussionsSchedule
    \/ PostComment
    \/ PostSubscribe

SpecContent == InitContent /\ [][NextContent]_vars

\* the create routes whose record has an author
AuthoredRoutes ==
    {"POST /discussions", "POST /discussions/schedule",
     "POST /discussions/:id/comments"}

ReceiveAuthored == ReceiveOn(AuthoredRoutes)

\* discussions and comments created one request after the other
NextAuthors ==
    \/ ReceiveAuthored
    \/ Middleware
    \/ PostDiscussions
    \/ PostDiscussionsSchedule
    \/ PostComment

SpecAuthors == InitContent /\ [][NextAuthors]_vars

\* one discussion of each account
Posted ==
    {[NoDiscussion EXCEPT !.id = 1, !.userID = 1, !.title = "t", !.content = "c"],
     [NoDiscussion EXCEPT !.id = 2, !.userID = 2, !.title = "t", !.content = "c"]}

\* the server once each account has posted a discussion
InitOwnership ==
    /\ now = 0
    /\ jwtSecret = <<"k">>
    /\ jwtExpiresIn = <<>>
    /\ verifyFirst \in BOOLEAN
    /\ issued = NoToken
    /\ req = IdleReq
    /\ users = Accounts
    /\ nextId = 3
    /\ ops = [p \in Procs |-> IdleOp]
    /\ resp = NoResp
    /\ regEmails = {"a@x.com", "b@x.com"}
    /\ discussions = Posted
    /\ nextDisc = 3
    /\ InitSide

\* requests on the change routes served one after the other, while the
\* DELETE /users/:id requests of other clients are served alongside
NextOwnership ==
    \/ ReceiveChange
    \/ Middleware
    \/ PutDiscussion
    \/ PutDiscussionStore
    \/ DeleteDiscussion
    \/ PutUser
    \/ PutUserStore
    \/ DeleteUser
    \/ DeleteUserStore
    \/ \E p \in Procs : DeleteRead(p) \/ DeleteWrite(p)

SpecOwnership == InitOwnership /\ [][NextOwnership]_vars

----------------------------------------------------------------------------
(* Login and UpdateProfile on registered accounts *)

\* the server with two accounts registered
InitPasswords == InitContent /\ verifyFirst

\* Login and UpdateProfile requests of two processes, interleaved
NextPasswords ==
    \E p \in Procs :
        \/ Login(p)
        \/ UpdateRead(p)
        \/ UpdateWrite(p)

SpecPasswords == InitPasswords /\ [][NextPasswords]_vars

----------------------------------------------------------------------------
(* posting, scheduling and reading discussions as time passes *)

ScheduleRoutes ==
    {"POST /discussions", "POST /discussions/schedule",
     "GET /discussions", "GET /discussions/:id"}

ReceiveSchedule == ReceiveOn(ScheduleRoutes)

GetDiscussions ==
    /\ Serving("GET /discussions")
    /\ \E list \in DiscussionGetAll(discussions) :
       \E out \in {DiscussionList(req.keys, DB, req.param, req.dto, now, list)} :
          Finish(out)

GetDiscussion ==
    /\ Serving("GET /discussions/:id")
    /\ \E out \in {DiscussionGet(req.keys, DB, req.param, req.dto, now, FALSE)} :
          Finish(out)

NextSchedule ==
    \/ ReceiveSchedule
    \/ Middleware
    \/ PostDiscussions
    \/ PostDiscussionsSchedule
    \/ GetDiscussions
    \/ GetDiscussion
    \/ Advance

SpecSchedule == InitContent /\ [][NextSchedule]_vars

\* PUT, DELETE and GET on discussions and PUT, DELETE on users
ReceiveLookup == ReceiveOn(ChangeRoutes \cup {"GET /discussions/:id"})

NextLookup ==
    \/ ReceiveLookup
    \/ Middleware
    \/ PutDiscussion
    \/ PutDiscussionStore
    \/ DeleteDiscussion
    \/ GetDiscussion
    \/ PutUser
    \/ PutUserStore
    \/ DeleteUser
    \/ DeleteUserStore
    \/ \E p \in Procs : DeleteRead(p) \/ DeleteWrite(p)

SpecLookup == InitOwnership /\ [][NextLookup]_vars

----------------------------------------------------------------------------
(* requests served concurrently, each with its own gin.Context *)

\* c.Set and c.Get of a request work on the keys of that request's own
\* context: the context whose keys process p reads and writes
KeyStore_Shared(p) == 1

KeyStore(p) == p

\* process p accepts a request on a protected route, with the token of an
\* account or with no Authorization header
Accept(p) ==
    /\ ctxs[p].stage \in {"idle", "done"}
    /\ \E caller \in {0} \cup Callers :
         \E g \in {GenerateToken(caller, now, jwtSecret, jwtExpiresIn)} :
           ctxs' = [ctxs EXCEPT ![p] =
                       [IdleReq EXCEPT
                           !.stage = "mw", !.route = "protected",
                           !.header = IF caller = 0 \/ g.err # ErrNone THEN <<>>
                                      ELSE Bearer \o Space \o g.tok,
                           !.caller = caller]]
    /\ UNCHANGED <<now, jwtSecret, jwtExpiresIn, verifyFirst, issued, req>>
    /\ UNCHANGED <<users, nextId, ops, resp, regEmails>>
    /\ UNCHANGED <<discussions, nextDisc, comments, nextComment, subscriptions, discussionTags>>
    /\ UNCHANGED <<lastCall, tags, nextTag, tagOps>>

\* JWTAuthMiddleware runs on the request of process p
MiddlewareOf(p) ==
    /\ ctxs[p].stage = "mw"
    /\ \E m \in {JWTAuthMiddleware(ctxs[p].header, ctxs[KeyStore(p)].keys, now,
                                   jwtSecret, verifyFirst)} :
         \E answered \in {[ctxs[p] EXCEPT
                             !.stage = IF m.aborted THEN "done" ELSE "handler",
                             !.status = m.status, !.body = m.body,
                             !.calls = m.calls, !.mwRan = TRUE]} :
           ctxs' = [q \in Procs |->
                       IF q = KeyStore(p)
                       THEN [(IF q = p THEN answered ELSE ctxs[q]) EXCEPT !.keys = m.keys]
                       ELSE IF q = p THEN answered ELSE ctxs[q]]
    /\ UNCHANGED <<now, jwtSecret, jwtExpiresIn, verifyFirst, issued, req>>
    /\ UNCHANGED <<users, nextId, ops, resp, regEmails>>
    /\ UNCHANGED <<discussions, nextDisc, comments, nextComment, subscriptions, discussionTags>>
    /\ UNCHANGED <<lastCall, tags, nextTag, tagOps>>

\* the handler of the protected route runs on the request of process p
HandlerOf(p) ==
    /\ ctxs[p].stage = "handler"
    /\ \E h \in {ProtectedHandler(ctxs[KeyStore(p)].keys)} :
         ctxs' = [ctxs EXCEPT ![p] =
                     [@ EXCEPT !.stage = "done", !.status = h.status, !.body = h.body,
                               !.userID = h.userID, !.handlerRan = TRUE]]
    /\ UNCHANGED <<now, jwtSecret, jwtExpiresIn, verifyFirst, issued, req>>
    /\ UNCHANGED <<users, nextId, ops, resp, regEmails>>
    /\ UNCHANGED <<discussions, nextDisc, comments, nextComment, subscriptions, discussionTags>>
    /\ UNCHANGED <<lastCall, tags, nextTag, tagOps>>

NextConcurrent ==
    \E p \in Procs :
        \/ Accept(p)
        \/ MiddlewareOf(p)
        \/ HandlerOf(p)

SpecConcurrent == InitContent /\ [][NextConcurrent]_vars

----------------------------------------------------------------------------
(* calls of the subscription repository *)

\* a user id that no row of users has
NoAccount == MaxId + 1

\* the user ids of subscriptions: none, an account, and an id without one
SubscriberIDs == {{}, {1}, {NoAccount}}

\* Repository.CreateSubscription is called for a pair, for an anonymous
\* subscriber, for an account or for a user id that has no account
SubscribeCall ==
    /\ \E pair \in SubPairs, userID \in SubscriberIDs :
         \E c \in {CreateSubscription(subscriptions,
                       [discussionID |-> pair[1], userID |-> userID,
                        email |-> pair[2], subscribedAt |-> now],
                       users, discussions)} :
           /\ subscriptions' = c.rows
           /\ lastCall' = [lastCall EXCEPT ![pair] =
                              [name |-> "subscribe", userID |-> userID, err |-> c.err]]
    /\ UNCHANGED tokenVars
    /\ UNCHANGED <<users, nextId, ops, resp, regEmails>>
    /\ UNCHANGED <<discussions, nextDisc, comments, nextComment, discussionTags>>
    /\ UNCHANGED <<ctxs, tags, nextTag, tagOps>>

\* Repository.DeleteSubscription is called for a pair
UnsubscribeCall ==
    /\ \E pair \in SubPairs :
         \E c \in {DeleteSubscription(subscriptions, pair[1], pair[2])} :
           /\ subscriptions' = c.rows
           /\ lastCall' = [lastCall EXCEPT ![pair] =
                              [name |-> "unsubscribe", userID |-> {}, err |-> c.err]]
    /\ UNCHANGED tokenVars
    /\ UNCHANGED <<users, nextId, ops, resp, regEmails>>
    /\ UNCHANGED <<discussions, nextDisc, comments, nextComment, discussionTags>>
    /\ UNCHANGED <<ctxs, tags, nextTag, tagOps>>

\* the server with two accounts and the first discussion posted; no
\* discussion has another id
InitSubscriptions ==
    /\ now = 0
    /\ jwtSecret = <<"k">>
    /\ jwtExpiresIn = <<>>
    /\ verifyFirst = TRUE
    /\ issued = NoToken
    /\ req = IdleReq
    /\ users = Accounts
    /\ nextId = 3
    /\ ops = [p \in Procs |-> IdleOp]
    /\ resp = NoResp
    /\ regEmails = {"a@x.com", "b@x.com"}
    /\ discussions = {d \in Posted : d.id = 1}
    /\ nextDisc = 2
    /\ InitSide

\* POST /discussions/:id/subscribe
ReceiveSubscribe == ReceiveOn({"POST /discussions/:id/subscribe"})

\* Subscribe requests through the server, and calls of the repository made
\* for a subscriber with or without an account
NextSubscriptions ==
    \/ SubscribeCall
    \/ UnsubscribeCall
    \/ ReceiveSubscribe
    \/ Middleware
    \/ PostSubscribe

SpecSubscriptions == InitSubscriptions /\ [][NextSubscriptions]_vars

----------------------------------------------------------------------------
(* service.AddTags, POST /discussions/:id/tags *)

\* what the steps of AddTags leave alone
TagFrame ==
    /\ UNCHANGED tokenVars
    /\ UNCHANGED <<users, nextId, ops, resp, regEmails>>
    /\ UNCHANGED <<discussions, nextDisc, comments, nextComment, subscriptions>>
    /\ UNCHANGED <<ctxs, lastCall>>

\* where AddTags goes on once a tag id has been gathered: to the next name,
\* or to repo.AddTags when no name is left
Gathered(op, id, made) ==
    [op EXCEPT !.names = Tail(@), !.tagIDs = Append(@, id),
               !.created = @ \cup made,
               !.pc = IF Len(op.names) = 1 THEN "link" ELSE "lookup"]

\* process p starts service.AddTags for a discussion id and a list of names
AddTagsBegin(p) ==
    /\ tagOps[p].pc = "idle"
    /\ \E id \in 1..MaxDisc, names \in TagLists :
         tagOps' = [tagOps EXCEPT ![p] =
                       [IdleTagOp EXCEPT !.pc = "lookup", !.discussionID = id,
                                         !.all = names, !.names = names]]
    /\ UNCHANGED <<tags, nextTag, discussionTags>>
    /\ TagFrame

\* tagRepo.GetByName for the next name
AddTagsLookup(p) ==
    /\ tagOps[p].pc = "lookup"
    /\ \E found \in {TagGetByName(tags, Head(tagOps[p].names))} :
         tagOps' = [tagOps EXCEPT ![p] =
                       IF found = {} THEN [@ EXCEPT !.pc = "create"]
                       ELSE Gathered(@, Only(found).id, {})]
    /\ UNCHANGED <<tags, nextTag, discussionTags>>
    /\ TagFrame

\* tagRepo.Create for a name that GetByName did not find
AddTagsCreate(p) ==
    /\ tagOps[p].pc = "create"
    /\ nextTag <= MaxTag
    /\ \E c \in {TagCreate(tags, nextTag, Head(tagOps[p].names), now)} :
         /\ tags' = c.rows
         /\ nextTag' = c.seq
         /\ tagOps' = [tagOps EXCEPT ![p] =
                          IF c.err # ErrNone
                          THEN [@ EXCEPT !.pc = "idle", !.err = c.err]
                          ELSE Gathered(@, c.id, {c.id})]
    /\ UNCHANGED discussionTags
    /\ TagFrame

\* repo.AddTags with the tag ids gathered, and the return of AddTags
AddTagsLink(p) ==
    /\ tagOps[p].pc = "link"
    /\ \E c \in {RepoAddTags(discussionTags, tagOps[p].discussionID,
                             tagOps[p].tagIDs, discussions, tags)} :
         /\ discussionTags' = c.rows
         /\ tagOps' = [tagOps EXCEPT ![p] =
                          [@ EXCEPT !.pc = "idle", !.err = c.err,
                                    !.linked = c.rows \ discussionTags]]
    /\ UNCHANGED <<tags, nextTag>>
    /\ TagFrame

NextTags ==
    \E p \in Procs :
        \/ AddTagsBegin(p)
        \/ AddTagsLookup(p)
        \/ AddTagsCreate(p)
        \/ AddTagsLink(p)

SpecTags == InitSubscriptions /\ [][NextTags]_vars

----------------------------------------------------------------------------
(* accounts *)

\* the two Login calls compared: one for an email with no account, one for a
\* stored email with a password that does not match its hash
UnknownEmail(e) == GetByEmail(users, e) = {}
WrongPassword(e, pw) ==
    \E u \in GetByEmail(users, e) : ~CompareHashAndPassword(u.passwordHash, pw)

\* C8: for every state of the account store, a Login for an email that has
\* no account and a Login for a stored email with a wrong password return
\* the same error and the same HTTP status and body; with a password
\* present that error is ErrInvalidCredentials, the status 401 and the body
\* "wrong email or password". Every such Login served answered this way.
C8_LoginIndistinguishable ==
    /\ \A e1 \in Emails, e2 \in Emails, pw \in Passwords \cup {""} :
          (UnknownEmail(e1) /\ WrongPassword(e2, pw)) =>
             \E a \in {LoginService(users, [email |-> e1, password |-> pw],
                                    now, jwtSecret, jwtExpiresIn)} :
             \E b \in {LoginService(users, [email |-> e2, password |-> pw],
                                    now, jwtSecret, jwtExpiresIn)} :
                /\ a.err = b.err
                /\ LoginResponse(a) = LoginResponse(b)
                /\ pw # "" =>
                     /\ a.err = ErrInvalidCredentials
                     /\ LoginResponse(a).status = StatusUnauthorized
                     /\ LoginResponse(a).body = "wrong email or password"
    /\ (resp.kind = "login" /\ resp.valid /\ ~(resp.stored /\ resp.pwOk)) =>
          /\ resp.err = ErrInvalidCredentials
          /\ resp.status = StatusUnauthorized
          /\ resp.body = "wrong email or password"
          /\ resp.token = <<>>

\* a Login for a stored email with a wrong password was answered 401 while
\* another email has no account
C8_Witness ==
    /\ resp.kind = "login"
    /\ resp.valid
    /\ resp.stored
    /\ ~resp.pwOk
    /\ resp.status = StatusUnauthorized
    /\ \E e \in Emails : UnknownEmail(e)

\* a Register call with all three required fields has just been answered
RegisterAnswered ==
    /\ resp' # resp
    /\ resp'.kind = "register"
    /\ resp'.valid
    /\ ops'[1] = IdleOp

\* C9: in a sequence of sequential Register calls (required fields
\* present), the first call for an email creates exactly one record, with
\* that email, and returns its identifier with 201; every later call with
\* that email fails with ErrUserExists and 409, makes no insert and leaves
\* the stored records unchanged.
C9_FirstCreatesLaterConflict ==
    [][RegisterAnswered =>
         IF resp'.first
         THEN /\ resp'.status = StatusCreated
              /\ \E row \in users' \ users :
                    /\ users' = users \cup {row}
                    /\ row.email = resp'.email
                    /\ row.id = resp'.id
         ELSE /\ resp'.err = ErrUserExists
              /\ resp'.status = StatusConflict
              /\ users' = users
              /\ nextId' = nextId]_vars

\* C10: in every state reachable by any interleaving of Register,
\* UpdateProfile and DeleteProfile requests, no two stored records share an
\* email.
C10_EmailsDistinct ==
    \A r1 \in users, r2 \in users : r1.email = r2.email => r1 = r2

\* a Register that found no account for its email lost the race: by the
\* time of its insert another record held that email
C10_Witness ==
    /\ resp.kind = "register"
    /\ resp.err = ErrUniqueViolation
    /\ resp.first = FALSE
    /\ \E r \in users : r.email = resp.email

\* C11: a Login with a stored email and its correct password is answered
\* 200 with a token, and Verify of that token yields the identifier of the
\* account stored under that email.
C11_LoginTokenCarriesAccountId ==
    (resp.kind = "login" /\ resp.valid /\ resp.stored /\ resp.pwOk) =>
       /\ resp.status = StatusOK
       /\ resp.err = ErrNone
       /\ \E u \in GetByEmail(users, resp.email) :
          \E v \in {ExtractUserID(resp.token, now, jwtSecret, verifyFirst)} :
             /\ v.err = ErrNone
             /\ v.uid = u.id

\* the second account logged in with its correct password and got a token
C11_Witness ==
    /\ resp.kind = "login"
    /\ resp.pwOk
    /\ resp.status = StatusOK
    /\ resp.token # <<>>
    /\ \E u \in GetByEmail(users, resp.email) : u.id = 2

\* the token the client holds is within its validity window
HeldTokenValid == issued.err = ErrNone /\ now < IssuedExpiry

\* the account the held token was issued for has since been deleted
HeldAccountGone == \A u \in users : u.id # issued.uid

\* C12: every ExtractUserID call the middleware makes on the token handed
\* out by Login, within its validity window, returns the user id the token
\* was issued for, whatever requests (logins, profile and password updates,
\* deletions) were served in between; and the call changes neither the
\* account store nor the token configuration.
C12_VerifyStateless ==
    /\ [](\A i \in 1..Len(req.calls) :
             (HeldTokenValid /\ req.calls[i].arg = issued.tok) =>
                 /\ req.calls[i].err = ErrNone
                 /\ req.calls[i].uid = issued.uid)
    /\ [][(req.stage = "mw" /\ req'.stage # "mw") =>
             /\ UNCHANGED storeVars
             /\ UNCHANGED <<jwtSecret, jwtExpiresIn, issued>>]_vars

\* the held token was accepted after the account it names was deleted
C12_Witness ==
    /\ HeldTokenValid
    /\ HeldAccountGone
    /\ req.handlerRan
    /\ req.userID = issued.uid
    /\ Len(req.calls) = 1
    /\ req.calls[1].arg = issued.tok

----------------------------------------------------------------------------
(* token codec: configuration and input errors *)

\* JWT_EXPIRES_IN holds a number of minutes that is zero or negative
NonPositiveTTL ==
    \E a \in {Atoi(jwtExpiresIn)} : a.ok /\ a.val <= 0

\* C13: with a configured TTL of 0 or of a negative number of minutes, a
\* token GenerateToken returned is rejected with ErrTokenExpired by an
\* ExtractUserID call made at the instant of issue.
C13_NonPositiveTTLExpiresAtOnce ==
    (NonPositiveTTL /\ issued.err = ErrNone /\ issued.tok # <<>> /\ now = issued.at) =>
        ExtractUserID(issued.tok, now, jwtSecret, verifyFirst).err = ErrTokenExpired

\* the string does not consist of three dot-separated segments
NotThreePart(str) == Len(Split(str, ".")) # 3

\* strings that are no three-part structure: junk, and the issued token
\* with its signature segment cut off or with a segment appended
NonTokens ==
    {j \in JunkTokens : NotThreePart(j)}
    \cup {Join(SubSeq(Split(tok, "."), 1, 2), ".") : tok \in IssuedTokens}
    \cup {tok \o <<".", "x">> : tok \in IssuedTokens}

\* C14: for every string that is not a three-part structure, ExtractUserID
\* fails with ErrTokenMalformed and returns no user id, never success and
\* never ErrTokenExpired; the same holds of every call the middleware made
\* on such a string.
C14_NonTokenMalformed ==
    /\ \A str \in NonTokens :
          ExtractUserID(str, now, jwtSecret, verifyFirst)
              = [uid |-> 0, err |-> ErrTokenMalformed]
    /\ \A i \in 1..Len(req.calls) :
          NotThreePart(req.calls[i].arg) =>
             /\ req.calls[i].uid = 0
             /\ req.calls[i].err = ErrTokenMalformed

\* with the secret set and an expired token issued, the middleware has
\* rejected a string of two segments
C14_Witness ==
    /\ jwtSecret # <<>>
    /\ issued.err = ErrNone
    /\ now >= IssuedExpiry
    /\ Len(req.calls) = 1
    /\ Len(Split(req.calls[1].arg, ".")) = 2
    /\ req.calls[1].err = ErrTokenMalformed
    /\ req.status = StatusUnauthorized

\* tokens signed under a secret other than the one now configured: the
\* issued token when the secret has changed since, and crafted ones
ForeignTokens ==
    {tok \in IssuedTokens : issued.key # jwtSecret}
    \cup {SignedString("HS256", c, key) :
            c \in CraftedClaims, key \in {<<"k">>, OtherKey} \ {jwtSecret}}

\* C15: ExtractUserID fails, returning no user id, for every token signed
\* under a secret different from the configured one, the secret having been
\* changed or unset since issue included; and a middleware call on the
\* issued token under a changed secret rejects the request with 401.
C15_ForeignSecretRejected ==
    /\ [](\A tok \in ForeignTokens :
            \E v \in {ExtractUserID(tok, now, jwtSecret, verifyFirst)} :
                v.err # ErrNone /\ v.uid = 0)
    /\ [][(req.stage = "mw" /\ req'.stage # "mw"
           /\ issued.err = ErrNone /\ issued.key # jwtSecret
           /\ req.header = Bearer \o Space \o issued.tok) =>
             /\ req'.status = StatusUnauthorized
             /\ req'.keys = NoKeys
             /\ req'.stage = "done"]_vars

\* a token issued under one secret was presented, within its validity,
\* after the secret had changed to another one, and was rejected
C15_Witness ==
    /\ issued.err = ErrNone
    /\ issued.key # jwtSecret
    /\ jwtSecret # <<>>
    /\ now < IssuedExpiry
    /\ req.stage = "done"
    /\ Len(req.calls) = 1
    /\ req.calls[1].arg = issued.tok
    /\ req.calls[1].err = ErrTokenMalformed

----------------------------------------------------------------------------
(* accounts: validation *)

\* the message for the first of the missing fields, in the order username,
\* email, password
FirstMissing(missing) ==
    IF "username" \in missing THEN "username is required"
    ELSE IF "email" \in missing THEN "email is required"
    ELSE "password is required"

\* C16: a Register or Login whose DTO lacks a required field fails with
\* the validation error naming the first missing field (username, email,
\* password for Register; email, password for Login), whether or not an
\* account is stored under its email; it returns no id and no token, and
\* the step that answers it leaves the stored records, the id sequence and
\* the requests in flight unchanged.
C16_ValidationFirst ==
    /\ []((resp.kind \in {"register", "login"} /\ resp.missing # {}) =>
            /\ resp.err = FirstMissing(resp.missing)
            /\ resp.id = 0
            /\ resp.token = <<>>)
    /\ [][(resp' # resp /\ resp'.missing # {}) =>
            /\ users' = users
            /\ nextId' = nextId
            /\ ops' = ops]_vars

\* a Register without username for an email that is already stored was
\* answered with the validation error, not with the duplicate error
C16_Witness ==
    /\ resp.kind = "register"
    /\ resp.missing = {"username", "password"}
    /\ resp.err = "username is required"
    /\ GetByEmail(users, resp.email) # {}

----------------------------------------------------------------------------
(* C17 *)

\* a handler that uses the caller's identity has run and its lookup in the
\* request context found none: GetUserID returned present = false for
\* discussion Create, Schedule and comment Create, and the key that
\* Subscribe reads is not set
IdentityAbsent ==
    /\ req.handlerRan
    /\ req.route \in CreateRoutes
    /\ IF req.route = "POST /discussions/:id/subscribe"
       THEN "userId" \notin DOMAIN req.keys
       ELSE ~GetUserID(req.keys).ok

\* C17: a handler that uses the caller's identity (discussion Create and
\* Schedule, comment Create, Subscribe) and finds no identity in the request
\* context makes no service call, and answers 401 unless it already rejected
\* the body with 400; it never goes on to the service with a default user.
C17_AbsentIdentityRejected ==
    IdentityAbsent =>
        /\ req.svc = <<>>
        /\ req.status \in {StatusUnauthorized, StatusBadRequest}

----------------------------------------------------------------------------
(* C18 *)

\* the handler of a create route has run on a request that presented the
\* token of an account to JWTAuthMiddleware
AuthenticatedCreate ==
    /\ req.handlerRan
    /\ req.caller # 0
    /\ req.route \in AuthoredRoutes

\* C18: on an authenticated create request the user id passed to the service
\* is the user id of the token presented on that request, and the record the
\* request stored, the comment on the discussion of the path or the
\* discussion, has that user id as its author.
C18_AuthorIsTokenUser ==
    AuthenticatedCreate =>
        /\ \A i \in DOMAIN req.svc : req.svc[i].userID = {req.caller}
        /\ req.status = StatusCreated =>
              IF req.route = "POST /discussions/:id/comments"
              THEN \E c \in comments : /\ c.id = req.id
                                        /\ c.userID = req.caller
                                        /\ c.discussionID = req.param
              ELSE \E d \in discussions : d.id = req.id /\ d.userID = req.caller

\* the second account, author of the second discussion, has commented on the
\* discussion of the first account
C18_Witness ==
    /\ AuthenticatedCreate
    /\ req.route = "POST /discussions/:id/comments"
    /\ req.caller = 2
    /\ req.status = StatusCreated
    /\ req.svc # <<>>
    /\ \E d \in discussions : d.id = req.param /\ d.userID = 1
    /\ \E d \in discussions : d.id = 2 /\ d.userID = 2
    /\ \E c \in comments : c.id = req.id /\ c.userID = 2

----------------------------------------------------------------------------
(* C19 *)

\* Subscribe has handed a subscription to the service on a request that
\* presented the token of an account to JWTAuthMiddleware
AuthenticatedSubscribe ==
    /\ req.handlerRan
    /\ req.caller # 0
    /\ req.route = "POST /discussions/:id/subscribe"
    /\ req.svc # <<>>

\* C19: the subscription an authenticated POST /discussions/:id/subscribe
\* hands to the service carries the user id of the request's token, the
\* discussion id of the path and the email of the body.
C19_SubscriptionCarriesUser ==
    AuthenticatedSubscribe =>
        \A i \in DOMAIN req.svc :
            /\ req.svc[i].userID = {req.caller}
            /\ req.svc[i].discussionID = req.param
            /\ req.svc[i].email = StrOf(req.dto.email)

----------------------------------------------------------------------------
(* C20 *)

\* the handler of a PUT or DELETE route has run on a request that presented
\* the token of an account to JWTAuthMiddleware
AuthenticatedChange ==
    /\ req.stage \in {"handler", "write"}
    /\ req.caller # 0
    /\ req.route \in ChangeRoutes

\* the step the handler of the route is to take, applied to the tables as
\* they stand, for a request whose token identifies the given account
ChangeBy(uid) ==
    LET keys == [k \in {"userID"} |-> uid]
    IN  CASE Serving("PUT /discussions/:id") ->
                DiscussionUpdate(keys, DB, req.param, req.dto, now, FALSE)
          [] Storing("PUT /discussions/:id") ->
                DiscussionUpdateStore(keys, DB, Only(req.read), req.dto, now, FALSE)
          [] Serving("DELETE /discussions/:id") ->
                DiscussionDelete(keys, DB, req.param, req.dto, now, FALSE)
          [] Serving("PUT /users/:id") ->
                UpdateProfile(keys, DB, req.param, req.dto, now, FALSE)
          [] Storing("PUT /users/:id") ->
                UpdateProfileStore(keys, DB, Only(req.read), req.dto, now, FALSE)
          [] Serving("DELETE /users/:id") ->
                DeleteProfile(keys, DB, req.param, req.dto, now, FALSE)
          [] OTHER ->
                DeleteProfileStore(keys, DB, Only(req.read), req.dto, now, FALSE)

\* C20: for PUT and DELETE on /discussions/:id and /users/:id every step of
\* the handler, its read and its write, leaves the response, the row kept
\* for the write and the tables that the same request gets with the valid
\* token of any other account; on a stored discussion the request of a
\* non-owner goes on to the write as the owner's does, and its write is
\* answered 200 or 204.
C20_NoOwnershipCheck ==
    [][AuthenticatedChange /\ req' # req =>
          /\ \A a \in Callers :
                /\ req'.status = ChangeBy(a).status
                /\ req'.body = ChangeBy(a).body
                /\ req'.read = ChangeBy(a).pending
                /\ users' = ChangeBy(a).users
                /\ discussions' = ChangeBy(a).discussions
          /\ \A d \in discussions :
                d.id = req.param /\ d.userID # req.caller =>
                   /\ Serving("PUT /discussions/:id") => req'.stage = "write"
                   /\ Storing("PUT /discussions/:id") =>
                         /\ req'.status = StatusOK
                         /\ \E e \in discussions' :
                               e.id = d.id /\ e.title = Only(req.read).title
                   /\ Serving("DELETE /discussions/:id") =>
                         req'.status = StatusNoContent /\ d \notin discussions'
    ]_vars

\* an account has changed the title of the other account's discussion
C20_Witness ==
    /\ req.handlerRan
    /\ req.route = "PUT /discussions/:id"
    /\ req.status = StatusOK
    /\ \E d \in discussions :
          d.id = req.param /\ d.userID # req.caller /\ d.userID # 0
             /\ req.caller # 0 /\ d.title = "u"

----------------------------------------------------------------------------
(* C21 *)

\* the variables other than the contexts of the requests
SharedState ==
    <<now, jwtSecret, jwtExpiresIn, verifyFirst, issued, req, users, nextId, ops,
      resp, regEmails, discussions, nextDisc, comments, nextComment,
      subscriptions, lastCall, tags,
      nextTag, discussionTags, tagOps>>

\* C21: whatever the interleaving of requests carrying tokens of different
\* users, the handler of each request observes the user id of that request's
\* own token, and a step of the middleware changes nothing but the context
\* of its own request.
C21_IdentityPerRequest ==
    /\ [](\A p \in Procs :
            ctxs[p].handlerRan =>
                /\ ctxs[p].caller # 0
                /\ ctxs[p].status = StatusOK
                /\ ctxs[p].userID = ctxs[p].caller)
    /\ [][/\ SharedState' = SharedState
          /\ \A p, q \in Procs :
                ctxs'[p] # ctxs[p] /\ q # p => ctxs'[q] = ctxs[q]]_vars

\* two requests with tokens of different users are past the middleware at
\* once, and one handler has answered while the other is still to run
C21_Witness ==
    /\ ctxs[1].handlerRan
    /\ ctxs[1].userID = 1
    /\ ctxs[2].stage = "handler"
    /\ ctxs[2].caller = 2

----------------------------------------------------------------------------
(* C22 *)

\* C22 as stated: for every (discussion id, email) pair there is at most one
\* subscription, and it exists exactly when the call made last for the pair
\* was a Subscribe.
C22_SubscribedIffLastSubscribe ==
    \A pair \in SubPairs :
        /\ Cardinality(SubscriptionsOf(subscriptions, pair)) <= 1
        /\ SubscriptionsOf(subscriptions, pair) # {}
              <=> lastCall[pair].name = "subscribe"

\* the subscription names a stored discussion and no user id, or the id of
\* a stored user
References(discussionID, userID) ==
    /\ \E d \in discussions : d.id = discussionID
    /\ \A u \in userID : \E a \in users : a.id = u

\* C22: there is at most one subscription per (discussion id, email) pair,
\* and it exists exactly when the call made last for the pair was a
\* Subscribe that returned no error. A Subscribe for a pair that is
\* subscribed returns no error and changes nothing; for a pair that is not,
\* it stores the one subscription when the discussion is stored and the user
\* id is absent or names a stored user, and otherwise fails on the foreign
\* key and stores nothing. Unsubscribe returns no error.
C22_AtMostOnePerPair ==
    /\ [](\A pair \in SubPairs :
            /\ Cardinality(SubscriptionsOf(subscriptions, pair)) <= 1
            /\ SubscriptionsOf(subscriptions, pair) # {}
                  <=> /\ lastCall[pair].name = "subscribe"
                      /\ lastCall[pair].err = ErrNone
            /\ lastCall[pair].err \in {ErrNone, ErrForeignKey}
            /\ lastCall[pair].err = ErrForeignKey =>
                  /\ lastCall[pair].name = "subscribe"
                  /\ ~References(pair[1], lastCall[pair].userID))
    /\ [][\A pair \in SubPairs :
             /\ lastCall'[pair] # lastCall[pair]
             /\ lastCall'[pair].name = "subscribe"
             => IF SubscriptionsOf(subscriptions, pair) # {}
                THEN /\ subscriptions' = subscriptions
                     /\ lastCall'[pair].err = ErrNone
                ELSE IF References(pair[1], lastCall'[pair].userID)
                THEN /\ lastCall'[pair].err = ErrNone
                     /\ \E s \in subscriptions' :
                           /\ subscriptions' = subscriptions \cup {s}
                           /\ <<s.discussionID, s.email>> = pair
                           /\ s.userID = lastCall'[pair].userID
                ELSE /\ lastCall'[pair].err = ErrForeignKey
                     /\ subscriptions' = subscriptions]_vars

\* an email subscribed to the stored discussion for an account has been
\* subscribed to it again by a request, and another email has been refused
\* for a user id without an account
C22_Witness ==
    /\ req.handlerRan
    /\ req.route = "POST /discussions/:id/subscribe"
    /\ req.status = StatusCreated
    /\ \E pair \in SubPairs :
          /\ pair = <<req.param, StrOf(req.dto.email)>>
          /\ lastCall[pair].name = "subscribe"
          /\ lastCall[pair].userID = {}
          /\ \E s \in SubscriptionsOf(subscriptions, pair) : s.userID = {1}
    /\ \E pair \in SubPairs :
          /\ \E d \in discussions : d.id = pair[1]
          /\ lastCall[pair] = [name |-> "subscribe", userID |-> {NoAccount},
                               err |-> ErrForeignKey]
          /\ SubscriptionsOf(subscriptions, pair) = {}

----------------------------------------------------------------------------
(* C23 *)

\* a request is answered in the step that receives it: no request that was
\* in flight completes
AnsweredAtOnce == \A p \in Procs : ops'[p].pc = "idle" => ops[p].pc = "idle"

\* C23: UpdateProfile (with a body that passes validation) and DeleteProfile
\* for an id with no stored user are answered 404 with ErrUserNotFound, no
\* repository Update or Delete call is set going for such an id, and the
\* stored users stay as they are.
C23_MissingUserNotFound ==
    [][/\ \A p \in Procs :
             /\ ops[p].pc = "idle"
             /\ ops'[p].kind \in {"update", "delete"}
             => \E r \in users : r.id = ops'[p].row.id
       /\ /\ resp' # resp
          /\ resp'.kind \in {"update", "delete"}
          /\ resp'.status # StatusBadRequest
          /\ AnsweredAtOnce
          => /\ resp'.status = StatusNotFound
             /\ resp'.err = ErrUserNotFound
             /\ \A r \in users : r.id # resp'.id
             /\ users' = users
             /\ ops' = ops
             /\ discussions' = discussions]_vars

\* an update naming an id with no stored user has been answered 404 while
\* another user is stored
C23_Witness ==
    /\ resp.kind = "update"
    /\ resp.status = StatusNotFound
    /\ resp.err = ErrUserNotFound
    /\ users # {}
    /\ \A r \in users : r.id # resp.id

----------------------------------------------------------------------------
(* C24 *)

\* C24: a discussion created with scheduled_at = T is returned by
\* GET /discussions and by GET /discussions/:id only from T on; before T the
\* rows returned are those with no scheduled_at.
C24_ScheduledHiddenUntilDue ==
    /\ req.handlerRan
    /\ req.route \in {"GET /discussions", "GET /discussions/:id"}
    => \A i \in DOMAIN req.rows : \A T \in req.rows[i].scheduledAt : T <= now

----------------------------------------------------------------------------
(* C25 *)

\* C25: however the lookups and inserts of two Register requests for the
\* same email interleave, the request that does not create the record is
\* answered 409 with ErrUserExists, never with a generic server error.
C25_OverlapLoserConflict ==
    /\ resp.kind = "register"
    /\ resp.valid
    /\ resp.status # StatusCreated
    /\ \E r \in users : r.email = resp.email
    => /\ resp.status = StatusConflict
       /\ resp.err = ErrUserExists

----------------------------------------------------------------------------
(* C26 *)

\* the fields of UpdateUserDTO that are copied to the record as they are
PlainFields == {"username", "email", "fullName", "bio"}

\* C26: a successful UpdateProfile sets the fields present in the DTO to the
\* values given (a present password becoming the password hash) and
\* updated_at, and leaves the id, created_at, every field absent from the
\* DTO and every other user as they were.
C26_UpdateFrame ==
    [][\A p \in Procs :
          /\ ops[p].kind = "update"
          /\ ops'[p].kind = "idle"
          /\ resp'.status = StatusOK
          => \E old \in users, new \in users' :
                /\ old.id = ops[p].row.id
                /\ new.id = old.id
                /\ new.createdAt = old.createdAt
                /\ new.updatedAt = now
                /\ \A f \in PlainFields :
                      new[f] = IF ops[p].dto[f] = {} THEN old[f]
                               ELSE Only(ops[p].dto[f])
                /\ IF ops[p].dto.password = {}
                   THEN new.passwordHash = old.passwordHash
                   ELSE CompareHashAndPassword(new.passwordHash,
                                               Only(ops[p].dto.password))
                /\ users' \ {new} = users \ {old}]_vars

----------------------------------------------------------------------------
(* C27 *)

\* C27: when UpdateProfile requests on the same user overlap and set
\* disjoint fields, the write of each leaves in the stored record what the
\* other has set: a field absent from the DTO of the request that writes
\* keeps the value stored just before the write, so that both new values
\* are held once both requests have been answered 200.
C27_DisjointUpdatesBothHold ==
    [][\A p \in Procs :
          /\ ops[p].kind = "update"
          /\ ops'[p].kind = "idle"
          /\ resp'.status = StatusOK
          => \A old \in users, new \in users' :
                old.id = ops[p].row.id /\ new.id = old.id =>
                    \A f \in PlainFields : ops[p].dto[f] = {} => new[f] = old[f]]_vars

----------------------------------------------------------------------------
(* C28 *)

\* the error AuthService.Login returns for an email and a password on the
\* given rows
LoginErr(rows, email, pw) ==
    LoginService(rows, [email |-> email, password |-> pw], now, jwtSecret,
                 jwtExpiresIn).err

\* process p completes an update that stores a new password for the user
SetsPassword(p, id) ==
    /\ ops[p].kind = "update"
    /\ ops'[p].kind = "idle"
    /\ ops[p].row.id = id
    /\ ops[p].dto.password # {}
    /\ resp'.status = StatusOK

\* C28: once an UpdateProfile has stored a new password for a user, Login
\* with the user's email succeeds with the new password and fails with
\* ErrInvalidCredentials with any other; every later step that is not
\* another password change of that user leaves the outcome of Login for the
\* user as it is for as long as the user is stored; and Login answers 200
\* exactly when the password given matches the stored hash.
C28_LoginFollowsPassword ==
    [][/\ \A p \in Procs : \A v \in users' :
             SetsPassword(p, v.id) =>
                \A pw \in Passwords :
                    LoginErr(users', v.email, pw) =
                        IF pw \in ops[p].dto.password THEN ErrNone
                        ELSE ErrInvalidCredentials
       /\ \A u \in users, v \in users' :
             /\ u.id = v.id
             /\ \A p \in Procs : ~SetsPassword(p, u.id)
             => \A pw \in Passwords :
                    LoginErr(users', v.email, pw) = LoginErr(users, u.email, pw)
       /\ resp'.kind = "login" /\ resp' # resp /\ resp'.valid =>
             /\ resp'.status = StatusOK <=> resp'.pwOk
             /\ ~resp'.pwOk => resp'.err = ErrInvalidCredentials]_vars

----------------------------------------------------------------------------
(* C29 *)

\* C29: PUT /discussions/:id for an id with no stored discussion is answered
\* 404 "not found", as GET /discussions/:id is for that id, never with a
\* success status, and changes nothing in the store.
C29_UpdateMissingNotFound ==
    [][/\ Serving("PUT /discussions/:id")
       /\ req'.handlerRan
       /\ \A d \in discussions : d.id # req.param
       => /\ req'.status = StatusNotFound
          /\ req'.status = DiscussionGet(req.keys, DB, req.param, req.dto, now, FALSE).status
          /\ discussions' = discussions
          /\ users' = users]_vars

----------------------------------------------------------------------------
(* C30 *)

\* C30: AddTags is all-or-nothing. A call that has returned an error has
\* left in the store neither a tag it created nor a link it inserted; a call
\* that has returned without error has every tag it named stored exactly
\* once and linked to the discussion.
C30_AddTagsAllOrNothing ==
    [][\A p \in Procs :
          tagOps[p].pc # "idle" /\ tagOps'[p].pc = "idle" =>
             IF tagOps'[p].err # ErrNone
             THEN /\ \A t \in tags' : t.id \notin tagOps'[p].created
                  /\ tagOps'[p].linked \cap discussionTags' = {}
             ELSE \A i \in DOMAIN tagOps'[p].all :
                     /\ Cardinality(TagGetByName(tags', tagOps'[p].all[i])) = 1
                     /\ \A t \in TagGetByName(tags', tagOps'[p].all[i]) :
                           [discussionID |-> tagOps'[p].discussionID,
                            tagID |-> t.id] \in discussionTags']_vars

====
